---- MODULE Spec2Model ----
(***************************************************************************)
(* State-machine model of the ai-pr-review server: the ModelManager        *)
(* (provider registry, default selection, fallback), the                   *)
(* ReviewPolicyManager (policy cache, merge over defaults, path filter,    *)
(* prompt rendering), the AIService review pipeline and the                *)
(* WebHookController (signature check, event classification, dedup map,   *)
(* comment posting).  Every await of the source is a point where a task    *)
(* yields, so each action below is the code between two awaits.            *)
(***************************************************************************)
EXTENDS Integers, Sequences, FiniteSets, TLC

VARIABLES
    providers,         \* ModelManager.providers: name -> registered instance
    defaultProvider,   \* ModelManager.defaultProvider
    configDefault,     \* ModelManager.config.defaultProvider
    nextInstance,      \* id of the next provider instance constructed
    mmCall,            \* one direct ModelManager.invokeModel call in progress
    webhookSecret,     \* config.getGitHubConfig().webhookSecret is set
    now,               \* Date.now()
    prReviewState,     \* WebHookController.prReviewState (the dedup map)
    configCache,       \* ReviewPolicyManager.configCache
    metrics,           \* LoggingService.metrics
    comments,          \* comments created on the source-control side
    tasks,             \* the handleWebHook calls, one record per slot
    probe              \* one call of a ReviewPolicyManager function: arguments
                       \* and result

vars == <<providers, defaultProvider, configDefault, nextInstance, mmCall,
          webhookSecret, now, prReviewState, configCache, metrics, comments,
          tasks, probe>>

mmVars == <<providers, defaultProvider, configDefault, nextInstance, mmCall>>

hookVars == <<webhookSecret, now, prReviewState, configCache, metrics,
              comments, tasks>>

(***************************************************************************)
(* Bounds of the model.                                                    *)
(***************************************************************************)
MaxInstances == 3      \* provider instances constructed in one run
MaxEvents == 2         \* webhooks received in one run
MaxFiles == 2          \* files of a snapshot a prompt is rendered from
MaxContentLen == 3     \* characters of a content custom rules are applied to
MaxRules == 2          \* custom rules applied in one call

(***************************************************************************)
(* JavaScript values.  A value is a record [t, v]: t is the type tag and   *)
(* v the payload, so that values of different types can be compared.       *)
(***************************************************************************)
None == "none"

JUndef == [t |-> "undef", v |-> "undefined"]
JNull == [t |-> "null", v |-> "null"]
JBool(b) == [t |-> "bool", v |-> b]
JNum(n) == [t |-> "num", v |-> n]
JStr(s) == [t |-> "str", v |-> s]
JArr(s) == [t |-> "arr", v |-> s]
JObj(f) == [t |-> "obj", v |-> f]

\* JavaScript truthiness: undefined, null, false, 0 and '' are falsy.
Truthy(x) ==
    /\ x.t \notin {"undef", "null"}
    /\ ~(x.t = "bool" /\ x.v = FALSE)
    /\ ~(x.t = "num" /\ x.v = 0)
    /\ ~(x.t = "str" /\ x.v = "")

\* obj.key, undefined when obj has no such property.
Prop(obj, key) ==
    IF obj.t = "obj" /\ key \in DOMAIN obj.v THEN obj.v[key] ELSE JUndef

(***************************************************************************)
(* ModelManager                                                            *)
(***************************************************************************)
ProviderNames == {"bedrock", "openai", "anthropic"}

\* A provider instance; getName() is a constant of its class.
Instance(n, i) == [name |-> n, id |-> i]
NoProvider == [name |-> None, id |-> 0]

NoError == [name |-> None, message |-> None]
ErrNoProvider == [name |-> "Error", message |-> "No AI model provider available"]
\* What a backend SDK throws from provider.invokeModel.
ProviderError(p) == [name |-> "Error", message |-> p.name]

NoContent == [from |-> None, id |-> 0, text |-> None]
\* What provider.invokeModel returns: the first text block, or ''.
Content(p, txt) == [from |-> p.name, id |-> p.id, text |-> txt]

ModelOptions ==
    [provider : ProviderNames \cup {None},
     modelId : {JUndef, JStr("model-x")},
     enableFallback : {JUndef, JBool(TRUE), JBool(FALSE)},
     fallbackProvider : ProviderNames \cup {None}]

NoOptions ==
    [provider |-> None, modelId |-> JUndef, enableFallback |-> JUndef,
     fallbackProvider |-> None]

NoResponse ==
    [content |-> NoContent, provider |-> None, modelId |-> JUndef,
     usedFallback |-> JUndef]

NoCall ==
    [pc |-> "idle", options |-> NoOptions, primary |-> NoProvider,
     fallback |-> NoProvider, attempts |-> <<>>, response |-> NoResponse,
     error |-> NoError]

\* One provider.invokeModel call made by invokeModel, and how it ended.
Attempt(p) ==
    [provider |-> p, outcome |-> "pending", text |-> None, error |-> NoError]

Resolved(a, txt) == [a EXCEPT !.outcome = "ok", !.text = txt]

Rejected(a) ==
    [a EXCEPT !.outcome = "failed", !.error = ProviderError(a.provider)]

\* providers.set(name, provider) and the default rule of registerProvider.
registerProviderMap(map, p) == [map EXCEPT ![p.name] = p]

\* A default rule under which the last registration wins.
registerProviderDefaultLast(def, cfgDefault, p) == p

registerProviderDefault(def, cfgDefault, p) ==
    IF (cfgDefault # None /\ cfgDefault = p.name) \/ def = NoProvider
    THEN p
    ELSE def

getProviderIn(map, def, name) ==
    IF name \in DOMAIN map /\ map[name] # NoProvider THEN map[name] ELSE def

getProvider(name) == getProviderIn(providers, defaultProvider, name)

\* invokeModel up to its first await: resolve the primary, throw when there
\* is none, otherwise call primary.invokeModel and yield.
invokeModelBegin(options) ==
    LET providerName ==
            IF options.provider # None THEN options.provider
            ELSE IF defaultProvider # NoProvider THEN defaultProvider.name
            ELSE "bedrock"
        primaryProvider == getProvider(providerName)
    IN  IF primaryProvider = NoProvider
        THEN [NoCall EXCEPT !.pc = "threw", !.options = options,
                            !.error = ErrNoProvider]
        ELSE [NoCall EXCEPT !.pc = "primary", !.options = options,
                            !.primary = primaryProvider,
                            !.attempts = <<Attempt(primaryProvider)>>]

\* A catch block that never looks for a fallback.
fallbackForNever(options, primaryProvider) == NoProvider

\* The fallback chosen in the catch block, NoProvider when none is attempted.
fallbackFor(options, primaryProvider) ==
    IF Truthy(options.enableFallback) /\ options.fallbackProvider # None
    THEN LET fallbackProvider == getProvider(options.fallbackProvider)
         IN  IF fallbackProvider # NoProvider
                /\ fallbackProvider.name # primaryProvider.name
             THEN fallbackProvider
             ELSE NoProvider
    ELSE NoProvider

\* primary.invokeModel resolved with text txt.
invokeModelPrimaryOk(call, txt) ==
    [call EXCEPT !.pc = "returned",
                 !.attempts[1] = Resolved(@, txt),
                 !.response = [content |-> Content(call.primary, txt),
                               provider |-> call.primary.name,
                               modelId |-> call.options.modelId,
                               usedFallback |-> JUndef]]

\* A catch block that invokes the primary again when there is no fallback.
invokeModelPrimaryFailedRetry(call) ==
    LET fallbackProvider == fallbackFor(call.options, call.primary)
        failed == Rejected(call.attempts[1])
        again == IF fallbackProvider # NoProvider THEN fallbackProvider
                 ELSE call.primary
    IN  [call EXCEPT !.pc = "fallback", !.fallback = again,
                     !.attempts = <<failed, Attempt(again)>>]

\* primary.invokeModel rejected: the catch block.
invokeModelPrimaryFailed(call) ==
    LET fallbackProvider == fallbackFor(call.options, call.primary)
        failed == Rejected(call.attempts[1])
    IN  IF fallbackProvider # NoProvider
        THEN [call EXCEPT !.pc = "fallback", !.fallback = fallbackProvider,
                          !.attempts = <<failed, Attempt(fallbackProvider)>>]
        ELSE [call EXCEPT !.pc = "threw", !.attempts = <<failed>>,
                          !.error = failed.error]

invokeModelFallbackOk(call, txt) ==
    [call EXCEPT !.pc = "returned",
                 !.attempts[2] = Resolved(@, txt),
                 !.response = [content |-> Content(call.fallback, txt),
                               provider |-> call.fallback.name,
                               modelId |-> call.options.modelId,
                               usedFallback |-> JBool(TRUE)]]

\* A fallback catch block that rethrows the primary's error.
invokeModelFallbackFailedPrimaryError(call) ==
    LET failed == Rejected(call.attempts[2])
    IN  [call EXCEPT !.pc = "threw", !.attempts[2] = failed,
                     !.error = call.attempts[1].error]

invokeModelFallbackFailed(call) ==
    LET failed == Rejected(call.attempts[2])
    IN  [call EXCEPT !.pc = "threw", !.attempts[2] = failed,
                     !.error = failed.error]

\* The texts a backend may return: a review, or no first text block.
Texts == {"review", ""}

\* The text the backends return to the webhook server in the model.
ReviewTexts == {"review"}

(***************************************************************************)
(* ReviewPolicyManager: the policy, the merge over the defaults, the path  *)
(* filter and the prompt.                                                  *)
(***************************************************************************)
\* The characters of the strings used as file names and glob patterns.
Chars(str) ==
    CASE str = "**/*" -> <<"*", "*", "/", "*">>
      [] str = "**/*.ts" -> <<"*", "*", "/", "*", ".", "t", "s">>
      [] str = "**/*.test.ts" ->
            <<"*", "*", "/", "*", ".", "t", "e", "s", "t", ".", "t", "s">>
      [] str = "src/a.ts" -> <<"s", "r", "c", "/", "a", ".", "t", "s">>
      [] str = "src/b.ts" -> <<"s", "r", "c", "/", "b", ".", "t", "s">>
      [] str = "src/a.test.ts" ->
            <<"s", "r", "c", "/", "a", ".", "t", "e", "s", "t", ".", "t", "s">>
      [] str = "src/lib/c.ts" ->
            <<"s", "r", "c", "/", "l", "i", "b", "/", "c", ".", "t", "s">>
      [] str = "README.md" -> <<"R", "E", "A", "D", "M", "E", ".", "m", "d">>
      [] OTHER -> <<>>

\* String.prototype.replace(/c/g, r) for a one-character pattern.
RECURSIVE ReplaceAll(_, _, _)
ReplaceAll(str, c, r) ==
    IF str = <<>> THEN <<>>
    ELSE (IF Head(str) = c THEN r ELSE <<Head(str)>>)
         \o ReplaceAll(Tail(str), c, r)

\* String.prototype.replace(/\*\*/g, '.*'): leftmost, non-overlapping.
RECURSIVE ReplaceStarStar(_)
ReplaceStarStar(str) ==
    IF str = <<>> THEN <<>>
    ELSE IF Len(str) >= 2 /\ str[1] = "*" /\ str[2] = "*"
         THEN <<".", "*">> \o ReplaceStarStar(SubSeq(str, 3, Len(str)))
         ELSE <<Head(str)>> \o ReplaceStarStar(Tail(str))

\* The source text of the regular expression built from a glob pattern: the
\* four replacements of matchesPattern, applied one after another.
regexPattern(pattern) ==
    LET dots == ReplaceAll(pattern, ".", <<"\\", ".">>)
        globstars == ReplaceStarStar(dots)
        stars == ReplaceAll(globstars, "*", <<"[", "^", "/", "]", "*">>)
    IN  ReplaceAll(stars, "?", <<".">>)

\* new RegExp(source): the atoms the four replacements can produce.
RECURSIVE RegExpAtoms(_)
RegExpAtoms(src) ==
    IF src = <<>> THEN <<>>
    ELSE IF Head(src) = "\\" /\ Len(src) >= 2
         THEN <<[k |-> "lit", c |-> src[2]]>>
              \o RegExpAtoms(SubSeq(src, 3, Len(src)))
    ELSE IF Len(src) >= 5 /\ SubSeq(src, 1, 5) = <<"[", "^", "/", "]", "*">>
         THEN <<[k |-> "notslash*", c |-> "/"]>>
              \o RegExpAtoms(SubSeq(src, 6, Len(src)))
    ELSE IF Head(src) = "."
         THEN <<[k |-> "any", c |-> "."]>> \o RegExpAtoms(Tail(src))
    ELSE <<[k |-> "lit", c |-> Head(src)]>> \o RegExpAtoms(Tail(src))

\* RegExp.prototype.test for an anchored expression ^atoms$.
RECURSIVE RegExpTest(_, _)
RegExpTest(atoms, str) ==
    IF atoms = <<>> THEN str = <<>>
    ELSE LET a == Head(atoms)
         IN  CASE a.k = "lit" ->
                    /\ str # <<>>
                    /\ Head(str) = a.c
                    /\ RegExpTest(Tail(atoms), Tail(str))
               [] a.k = "any" ->
                    /\ str # <<>>
                    /\ RegExpTest(Tail(atoms), Tail(str))
               [] OTHER ->
                    \/ RegExpTest(Tail(atoms), str)
                    \/ /\ str # <<>>
                       /\ Head(str) # "/"
                       /\ RegExpTest(atoms, Tail(str))

matchesPattern(file, pattern) ==
    RegExpTest(RegExpAtoms(regexPattern(pattern)), file)

\* The policy every repository starts from.  temperature is in tenths.
defaultConfig ==
    JObj([general |-> JObj([enabled |-> JBool(TRUE), min_size |-> JNum(10),
                            max_size |-> JNum(1000),
                            style |-> JStr("consolidated")]),
          focus |-> JObj([code_quality |-> JBool(TRUE),
                          security |-> JBool(TRUE),
                          performance |-> JBool(TRUE),
                          documentation |-> JBool(TRUE),
                          testing |-> JBool(TRUE),
                          architecture |-> JBool(TRUE)]),
          severity |-> JObj([critical |-> JBool(TRUE), high |-> JBool(TRUE),
                             medium |-> JBool(TRUE), low |-> JBool(TRUE),
                             info |-> JBool(TRUE)]),
          files |-> JObj([include |-> JArr(<<JStr("**/*")>>),
                          exclude |-> JArr(<<>>)]),
          custom_rules |-> JArr(<<>>),
          ai |-> JObj([temperature |-> JNum(3), max_tokens |-> JNum(1000),
                       custom_instructions |-> JStr("")])])

\* mergeObjects(target, source): right-biased, recursive on plain objects.
\* The own properties of the result; an own '__proto__' key of the source
\* adds none, target['__proto__'] being the accessor of Object.prototype.
RECURSIVE mergeObjects(_, _)
mergeObjects(target, source) ==
    IF source.t # "obj" THEN target
    ELSE JObj([key \in DOMAIN target.v \cup (DOMAIN source.v \ {"__proto__"}) |->
                 IF key \notin DOMAIN source.v THEN target.v[key]
                 ELSE IF /\ source.v[key].t = "obj"
                         /\ key \in DOMAIN target.v
                         /\ target.v[key].t = "obj"
                      THEN mergeObjects(target.v[key], source.v[key])
                      ELSE source.v[key]])

\* A merge that replaces top-level fields whole.
validateAndMergeConfigShallow(config) ==
    IF config.t # "obj" THEN defaultConfig
    ELSE JObj([key \in DOMAIN defaultConfig.v \cup DOMAIN config.v |->
                 IF key \in DOMAIN config.v THEN config.v[key]
                 ELSE defaultConfig.v[key]])

validateAndMergeConfig(config) == mergeObjects(defaultConfig, config)

\* The properties scripts have added to Object.prototype: none at start.
ObjectPrototype == JObj([key \in {} |-> JUndef])

\* obj[key] as JavaScript reads it: an own property, else an inherited one.
Lookup(prototype, obj, key) ==
    IF obj.t = "obj" /\ key \in DOMAIN obj.v THEN obj.v[key]
    ELSE IF obj.t \in {"obj", "arr"} THEN Prop(prototype, key)
    ELSE JUndef

\* Object.prototype after mergeObjects(target, source).  For an own
\* '__proto__' key of the source with an object value, target['__proto__']
\* is Object.prototype, a truthy non-array object, and mergeObjects recurses
\* into it: the entries of the value are assigned to Object.prototype.
RECURSIVE prototypeAfter(_, _, _)
RECURSIVE prototypeNested(_, _, _, _)
prototypeAfter(prototype, target, source) ==
    IF source.t # "obj" THEN prototype
    ELSE LET here == IF /\ "__proto__" \in DOMAIN source.v
                        /\ source.v["__proto__"].t = "obj"
                     THEN mergeObjects(prototype, source.v["__proto__"])
                     ELSE prototype
             nested == {key \in DOMAIN source.v \ {"__proto__"} :
                          /\ source.v[key].t = "obj"
                          /\ key \in DOMAIN target.v
                          /\ target.v[key].t = "obj"}
         IN  prototypeNested(here, target, source, nested)

\* The recursive calls of mergeObjects for the entries of the source that
\* are plain objects on both sides.
prototypeNested(prototype, target, source, keys) ==
    IF keys = {} THEN prototype
    ELSE LET key == CHOOSE k \in keys : TRUE
         IN  prototypeNested(prototypeAfter(prototype, target.v[key],
                                            source.v[key]),
                             target, source, keys \ {key})

\* The array of strings held by a policy field, as character sequences.
Patterns(arr) == [i \in 1..Len(arr.v) |-> Chars(arr.v[i].v)]

shouldIncludeFile(filePath, config) ==
    LET include == Patterns(Prop(Prop(config, "files"), "include"))
        exclude == Patterns(Prop(Prop(config, "files"), "exclude"))
    IN  /\ ~\E i \in 1..Len(exclude) : matchesPattern(filePath, exclude[i])
        /\ \E i \in 1..Len(include) : matchesPattern(filePath, include[i])

\* A text of n characters; '' is falsy.
JText(v, n) == [t |-> "str", v |-> v, n |-> n]

PatchLimit == 10000

\* One entry of the changed-files list.
File(name, binary, patch) ==
    [filename |-> name, isBinary |-> binary, patch |-> patch]

\* One piece of the prompt text, in the order it is appended.
Part(kind, file, body, list) ==
    [kind |-> kind, file |-> file, body |-> body, list |-> list]

\* Object.entries(obj) in the key order of defaultConfig, enabled ones only.
FocusKeys ==
    <<"code_quality", "security", "performance", "documentation", "testing",
      "architecture">>

SeverityKeys == <<"critical", "high", "medium", "low", "info">>

EnabledKeys(obj, keys) ==
    LET On(key) == Truthy(Prop(obj, key)) IN SelectSeq(keys, On)

\* area.replace('_', ' ')
AreaLabel(area) == IF area = "code_quality" THEN "code quality" ELSE area

SeverityLabel(level) == IF level = "info" THEN "informational" ELSE level

\* A size test that takes a patch of exactly the limit for too large.
FilePartAtLimit(file, config) ==
    IF ~shouldIncludeFile(Chars(file.filename), config) THEN <<>>
    ELSE IF Truthy(file.isBinary)
            \/ (Truthy(file.patch) /\ file.patch.n >= PatchLimit)
         THEN <<Part("placeholder", file.filename, JStr("[Binary file or too large to include]"), <<>>)>>
         ELSE <<Part("fenced", file.filename,
                     IF Truthy(file.patch) THEN file.patch
                     ELSE JStr("No diff available"), <<>>)>>

\* What files.forEach appends for one file.
FilePart(file, config) ==
    IF ~shouldIncludeFile(Chars(file.filename), config) THEN <<>>
    ELSE IF Truthy(file.isBinary)
            \/ (Truthy(file.patch) /\ file.patch.n > PatchLimit)
         THEN <<Part("placeholder", file.filename, JStr("[Binary file or too large to include]"), <<>>)>>
         ELSE <<Part("fenced", file.filename,
                     IF Truthy(file.patch) THEN file.patch
                     ELSE JStr("No diff available"), <<>>)>>

RECURSIVE FileParts(_, _)
FileParts(files, config) ==
    IF files = <<>> THEN <<>>
    ELSE FilePart(Head(files), config) \o FileParts(Tail(files), config)

RulePart(rule) == Part("rule", None, rule, <<>>)

\* Reading a property of null or undefined, or calling a method the value
\* does not have.
TypeErrorConfig ==
    [name |-> "TypeError", message |-> "Cannot read properties of null"]

\* shouldIncludeFile throws: config.files cannot be destructured, or exclude
\* (include, when no exclude pattern matched) has no method some.
shouldIncludeFileThrows(filePath, config) ==
    LET files == Prop(config, "files")
        include == Prop(files, "include")
        exclude == Prop(files, "exclude")
    IN  \/ files.t \in {"undef", "null"}
        \/ exclude.t # "arr"
        \/ /\ ~\E i \in 1..Len(exclude.v) :
                  matchesPattern(filePath, Chars(exclude.v[i].v))
           /\ include.t # "arr"

\* generateCustomizedPrompt throws: Object.entries of a null section,
\* config.ai.custom_instructions of a null ai, shouldIncludeFile on one of
\* the files, or custom_rules without length or without forEach.
generateCustomizedPromptThrows(prData, config) ==
    LET rules == Prop(config, "custom_rules")
    IN  \/ Prop(config, "focus").t \in {"undef", "null"}
        \/ Prop(config, "severity").t \in {"undef", "null"}
        \/ Prop(config, "ai").t \in {"undef", "null"}
        \/ \E i \in 1..Len(prData.files) :
              shouldIncludeFileThrows(Chars(prData.files[i].filename), config)
        \/ rules.t \in {"undef", "null"}
        \/ (rules.t = "str" /\ Truthy(rules))

generateCustomizedPrompt(prData, config) ==
    LET focusOn == EnabledKeys(Prop(config, "focus"), FocusKeys)
        focusAreas == [i \in 1..Len(focusOn) |-> AreaLabel(focusOn[i])]
        severityOn == EnabledKeys(Prop(config, "severity"), SeverityKeys)
        severityLevels ==
            [i \in 1..Len(severityOn) |-> SeverityLabel(severityOn[i])]
        instructions == Prop(Prop(config, "ai"), "custom_instructions")
        custom_rules == Prop(config, "custom_rules")
        rules == IF custom_rules.t = "arr" THEN custom_rules.v ELSE <<>>
    IN  (IF Truthy(instructions)
         THEN <<Part("instructions", None, instructions, <<>>)>>
         ELSE <<>>)
        \o <<Part("focus", None, JStr("Focus on"), focusAreas),
             Part("severity", None, JStr("Include"), severityLevels),
             Part("title", None,
                  IF Truthy(prData.title) THEN prData.title
                  ELSE JStr("No title provided"), <<>>),
             Part("description", None,
                  IF Truthy(prData.body) THEN prData.body
                  ELSE JStr("No description provided"), <<>>)>>
        \o FileParts(prData.files, config)
        \o (IF Len(rules) > 0
            THEN [i \in 1..Len(rules) |-> RulePart(rules[i])]
            ELSE <<>>)
        \o <<Part("sections", None, JStr("Summary, Key Findings, Recommendations"),
                  focusAreas)>>

(***************************************************************************)
(* AIService                                                               *)
(***************************************************************************)
\* A string-valued policy field as a provider name, None when falsy.
NameOf(x) == IF x.t = "str" /\ Truthy(x) THEN x.v ELSE None

\* The options AIService.invokeModel passes to the ModelManager.
optionsFrom(repoConfig) ==
    LET ai == Prop(repoConfig, "ai")
    IN  [provider |-> NameOf(Prop(ai, "provider")),
         modelId |-> Prop(ai, "model_id"),
         enableFallback |-> Prop(ai, "enable_fallback"),
         fallbackProvider |-> NameOf(Prop(ai, "fallback_provider"))]

NoReview ==
    [kind |-> None, ai |-> None, provider |-> None, modelId |-> None,
     error |-> NoError]

\* formatReviewComment: the header, the interpolated aiResponse (the
\* ModelResponse object, so its string conversion) and the footer.
formatReviewComment(aiResponse, provider, modelId) ==
    [kind |-> "review", ai |-> "[object Object]",
     provider |-> IF provider # None THEN provider ELSE "AI",
     modelId |-> IF Truthy(modelId) THEN modelId.v ELSE "unknown model",
     error |-> NoError]

\* The message reviewPullRequest returns from its catch block.
failureComment(error) ==
    [kind |-> "failure", ai |-> None, provider |-> None, modelId |-> None,
     error |-> error]

(***************************************************************************)
(* SecurityService and WebHookController                                   *)
(***************************************************************************)
\* `${owner}/${repo}/${prNumber}`; the policy cache key is the same string,
\* because reviewPullRequest is called with the PR number as ref.
Keys == {"acme/widgets/42", "acme/widgets/43"}

Cooldown == 5 * 60 * 1000

\* The values Date.now() takes in the model.
Instants == {0, Cooldown - 1, Cooldown}

Slots == {1, 2}

\* req.body: a non-empty string or Buffer, the object express.json() leaves,
\* or an empty (falsy) body.
BodyKinds == {"raw", "parsed", "empty"}

\* The X-Hub-Signature-256 header: absent, not of the form sha256=<hex>, a
\* digest of another length, a digest of the right length that differs, or
\* the digest of the body under the secret.
SignatureKinds == {"missing", "malformed", "wronglength", "tampered", "valid"}

EventTypes == {"pull_request", "issue_comment", "push"}
PullRequestActions == {"opened", "synchronize", "reopened", "closed"}
CommentActions == {"created", "edited"}

\* "true", "false", or "throws" when hmac.update is handed an object.
validateWebhookSignature(payload, signature, secret) ==
    IF payload = "empty" \/ signature = "missing" \/ ~secret THEN "false"
    ELSE IF signature = "malformed" THEN "false"
    ELSE IF payload = "parsed" THEN "throws"
    ELSE IF signature \in {"wronglength", "tampered"} THEN "false"
    ELSE "true"

TypeErrorThis ==
    [name |-> "TypeError",
     message |-> "Cannot read properties of undefined (reading 'securityService')"]
TypeErrorData ==
    [name |-> "TypeError", message |-> "The \"data\" argument must be of type string"]
\* What the source-control client throws from a failed request.
GithubError(call) == [name |-> "HttpError", message |-> call]

NoEntry == [timestamp |-> -1, commentId |-> 0]

NoResult ==
    [processed |-> JUndef, reason |-> None, commentId |-> 0, error |-> None]

NoTask ==
    [pc |-> "idle", bound |-> TRUE, body |-> None, signature |-> None,
     eventType |-> None, action |-> None, key |-> None,
     isPullRequest |-> FALSE, hasTrigger |-> FALSE,
     calls |-> <<>>, files |-> JUndef, repoConfig |-> JUndef, prompt |-> <<>>,
     call |-> NoCall, review |-> NoReview, status |-> 0, result |-> NoResult]

\* res.status(status).json(result)
Respond(task, status, result) ==
    [task EXCEPT !.pc = "done", !.status = status, !.result = result]

Skipped(task, reason) ==
    Respond(task, 200, [NoResult EXCEPT !.processed = JBool(FALSE),
                                         !.reason = reason])

\* A handler without its catch block: the framework's error handler answers.
CaughtByErrorHandler(task, error) ==
    Respond(task, 500, [NoResult EXCEPT !.error = error.message])

\* The catch block of handleWebHook.
Caught(task, error) ==
    Respond(task, 200, [NoResult EXCEPT !.processed = JBool(FALSE),
                                         !.error = error.message])

Count(m, name) == [m EXCEPT ![name] = @ + 1]

InFlight(t) == tasks[t].pc \notin {"idle", "done"}

\* The changed-files lists the source-control client returns: none, or two
\* text files, one of them with a patch of exactly 10000 characters.  The
\* client's entries carry no isBinary field.
ChangedFiles ==
    {<<>>,
     <<File("src/a.ts", JUndef, JText("diff", PatchLimit)),
       File("README.md", JUndef, JText("diff", 120))>>}

\* The policy documents yaml.load may return for .github/ai-review.yml.
PolicyDocuments ==
    {JObj([ai |-> JObj([provider |-> JStr("bedrock"),
                        enable_fallback |-> JBool(TRUE),
                        fallback_provider |-> JStr("openai")]),
           files |-> JObj([include |-> JArr(<<JStr("**/*.ts")>>),
                           exclude |-> JArr(<<JStr("**/*.test.ts")>>)])])}

\* How the fetch of .github/ai-review.yml ends: a document that parses, a
\* 404, another failure of the request, or a document yaml.load rejects.
PolicyOutcomes ==
    {[kind |-> "document", doc |-> d] : d \in PolicyDocuments}
    \cup {[kind |-> k, doc |-> JUndef] : k \in {"notfound", "error", "unparsable"}}

\* A getRepositoryConfig that caches loaded documents only.
getRepositoryConfigSettledLoadedOnly(cache, key, outcome) ==
    IF outcome.kind = "document"
    THEN LET validatedConfig == validateAndMergeConfig(outcome.doc)
         IN  [config |-> validatedConfig,
              cache |-> [cache EXCEPT ![key] = validatedConfig]]
    ELSE [config |-> defaultConfig, cache |-> cache]

\* getRepositoryConfig after its await: the policy it returns and the cache
\* it leaves.
getRepositoryConfigSettled(cache, key, outcome) ==
    IF outcome.kind = "document"
    THEN LET validatedConfig == validateAndMergeConfig(outcome.doc)
         IN  [config |-> validatedConfig,
              cache |-> [cache EXCEPT ![key] = validatedConfig]]
    ELSE [config |-> defaultConfig,
          cache |-> [cache EXCEPT ![key] = defaultConfig]]

\* The title and description of the pull request.
PrTitle == JStr("Add widgets")
PrBody == JStr("")

(***************************************************************************)
(* The review pipeline.  Each operator is the code a task runs between two *)
(* awaits; it yields the task's next record and the metrics.               *)
(***************************************************************************)
Step(task, m) == [task |-> task, metrics |-> m]

Await(task, pc, name) == [task EXCEPT !.pc = pc, !.calls = Append(@, name)]

\* reviewPullRequest has its review text (or its catch block has the failure
\* message); the controller calls createComment with it.
postReview(task, review, m) ==
    Step(Await([task EXCEPT !.review = review], "comment", "createComment"), m)

\* A reviewPullRequest without its catch block: the model error reaches the
\* catch block of handleWebHook.
modelFailedUncaught(task, call, m) ==
    Step(Caught([task EXCEPT !.call = call], call.error),
         Count(m, "aiCallsFailed"))

\* AIService.invokeModel threw: count the failure; reviewPullRequest catches.
modelFailed(task, call, m) ==
    postReview([task EXCEPT !.call = call], failureComment(call.error),
               Count(m, "aiCallsFailed"))

\* AIService.invokeModel got its response: count the success, format it.
modelReturned(task, call, m) ==
    postReview([task EXCEPT !.call = call],
               formatReviewComment(call.response, call.response.provider,
                                   call.response.modelId),
               Count(m, "aiCallsSucceeded"))

\* A review that has its comment posted while the model is still to be asked.
reviewWithConfigSpeculative(task, repoConfig, m) ==
    postReview([task EXCEPT !.repoConfig = repoConfig],
               formatReviewComment(NoResponse, None, JUndef), m)

\* reviewPullRequest from the resolved policy to the provider call.
reviewWithConfig(task, repoConfig, m) ==
    LET prData == [title |-> PrTitle, body |-> PrBody, files |-> task.files.v]
        prompt == generateCustomizedPrompt(prData, repoConfig)
        call == invokeModelBegin(optionsFrom(repoConfig))
        ready == [task EXCEPT !.repoConfig = repoConfig, !.prompt = prompt]
        made == Count(m, "aiCallsMade")
    IN  IF generateCustomizedPromptThrows(prData, repoConfig)
        THEN postReview([task EXCEPT !.repoConfig = repoConfig],
                        failureComment(TypeErrorConfig), m)
        ELSE IF call.pc = "threw"
        THEN modelFailed(ready, call, made)
        ELSE Step(Await([ready EXCEPT !.call = call], "primary", "invokeModel"),
                  made)

\* reviewPullRequest up to its first await: getRepositoryConfig answers from
\* the cache or asks the source-control client for the policy document.
reviewPullRequest(task, files, m) ==
    LET withFiles == [task EXCEPT !.files = JArr(files)]
    IN  IF configCache[task.key] # JUndef
        THEN reviewWithConfig(withFiles, configCache[task.key], m)
        ELSE Step(Await(withFiles, "policy", "getFileContent"), m)

\* A classification that leaves reopened out.
processPullRequestEventNoReopen(task) ==
    IF task.action \notin {"opened", "synchronize"}
    THEN Skipped(task, "Action not supported")
    ELSE Await(task, "files", "getPullRequestFiles")

\* processPullRequestEvent up to its first await.
processPullRequestEvent(task) ==
    IF task.action \notin {"opened", "synchronize", "reopened"}
    THEN Skipped(task, "Action not supported")
    ELSE LET lastProcessed == prReviewState[task.key]
         IN  IF lastProcessed # NoEntry
                /\ now - lastProcessed.timestamp < Cooldown
             THEN Skipped(task, "PR was recently processed")
             ELSE Await(task, "files", "getPullRequestFiles")

\* A manual trigger that does not look for the token.
processIssueCommentEventAnyBody(task) ==
    IF ~task.isPullRequest THEN Skipped(task, "Not a pull request comment")
    ELSE IF task.action # "created" THEN Skipped(task, "Action not supported")
    ELSE Await(task, "details", "getPullRequestDetails")

\* processIssueCommentEvent up to its first await.
processIssueCommentEvent(task) ==
    IF ~task.isPullRequest THEN Skipped(task, "Not a pull request comment")
    ELSE IF task.action # "created" THEN Skipped(task, "Action not supported")
    ELSE IF ~task.hasTrigger
         THEN Skipped(task, "Comment does not contain review trigger")
    ELSE Await(task, "details", "getPullRequestDetails")

\* handleWebHook up to its first await.  this is undefined when the method is
\* called detached from its controller, as the router calls it.
handleWebHook(task) ==
    IF ~task.bound THEN Caught(task, TypeErrorThis)
    ELSE LET valid == validateWebhookSignature(task.body, task.signature,
                                               webhookSecret)
         IN  CASE valid = "throws" -> Caught(task, TypeErrorData)
               [] valid = "false" ->
                    Respond(task, 401, [NoResult EXCEPT !.error = "Invalid signature"])
               [] task.eventType = "pull_request" ->
                    processPullRequestEvent(task)
               [] task.eventType = "issue_comment" ->
                    processIssueCommentEvent(task)
               [] OTHER -> Skipped(task, "Event type not supported")

\* The request a slot receives: what the handler reads of it.
Request(bound, body, signature) ==
    [NoTask EXCEPT !.bound = bound, !.body = body, !.signature = signature]

(***************************************************************************)
(* Actions of the webhook server                                           *)
(***************************************************************************)
Idle(t) == tasks[t].pc \in {"idle", "done"}

CanReceive(t) == Idle(t) /\ metrics.webhooksReceived < MaxEvents

Verified(bound, body, signature) ==
    bound /\ validateWebhookSignature(body, signature, webhookSecret) = "true"

\* A request that does not get past the signature check.
ReceiveUnverified(t) ==
    /\ CanReceive(t)
    /\ \E bound \in BOOLEAN, body \in BodyKinds, signature \in SignatureKinds :
          /\ ~Verified(bound, body, signature)
          /\ tasks' = [tasks EXCEPT
                         ![t] = handleWebHook(Request(bound, body, signature))]
    /\ metrics' = Count(metrics, "webhooksReceived")
    /\ UNCHANGED <<probe, mmVars, webhookSecret, now, prReviewState, configCache,
                   comments>>

ReceivePullRequest(t) ==
    /\ CanReceive(t)
    /\ Verified(TRUE, "raw", "valid")
    /\ \E key \in Keys, action \in PullRequestActions :
          tasks' = [tasks EXCEPT
                      ![t] = handleWebHook(
                                [Request(TRUE, "raw", "valid") EXCEPT
                                    !.eventType = "pull_request",
                                    !.action = action, !.key = key])]
    /\ metrics' = Count(metrics, "webhooksReceived")
    /\ UNCHANGED <<probe, mmVars, webhookSecret, now, prReviewState, configCache,
                   comments>>

ReceiveIssueComment(t) ==
    /\ CanReceive(t)
    /\ Verified(TRUE, "raw", "valid")
    /\ \E key \in Keys, action \in CommentActions,
          isPullRequest \in BOOLEAN, hasTrigger \in BOOLEAN :
          tasks' = [tasks EXCEPT
                      ![t] = handleWebHook(
                                [Request(TRUE, "raw", "valid") EXCEPT
                                    !.eventType = "issue_comment",
                                    !.action = action, !.key = key,
                                    !.isPullRequest = isPullRequest,
                                    !.hasTrigger = hasTrigger])]
    /\ metrics' = Count(metrics, "webhooksReceived")
    /\ UNCHANGED <<probe, mmVars, webhookSecret, now, prReviewState, configCache,
                   comments>>

ReceiveOtherEvent(t) ==
    /\ CanReceive(t)
    /\ Verified(TRUE, "raw", "valid")
    /\ tasks' = [tasks EXCEPT
                   ![t] = handleWebHook([Request(TRUE, "raw", "valid") EXCEPT
                                            !.eventType = "push"])]
    /\ metrics' = Count(metrics, "webhooksReceived")
    /\ UNCHANGED <<probe, mmVars, webhookSecret, now, prReviewState, configCache,
                   comments>>

\* getPullRequestDetails returns or throws (manual trigger only).
DetailsReturn(t) ==
    /\ tasks[t].pc = "details"
    /\ \/ tasks' = [tasks EXCEPT
                      ![t] = Await(@, "files", "getPullRequestFiles")]
       \/ tasks' = [tasks EXCEPT
                      ![t] = Caught(@, GithubError("getPullRequestDetails"))]
    /\ UNCHANGED <<probe, mmVars, webhookSecret, now, prReviewState, configCache,
                   metrics, comments>>

\* A rejection of getPullRequestFiles that no catch block handles: the
\* request is never answered.
FilesFailUnanswered(t) ==
    /\ tasks[t].pc = "files"
    /\ tasks' = [tasks EXCEPT ![t] = [@ EXCEPT !.pc = "unanswered"]]
    /\ UNCHANGED <<probe, mmVars, webhookSecret, now, prReviewState, configCache,
                   metrics, comments>>

\* getPullRequestFiles throws.
FilesFail(t) ==
    /\ tasks[t].pc = "files"
    /\ tasks' = [tasks EXCEPT
                   ![t] = Caught(@, GithubError("getPullRequestFiles"))]
    /\ UNCHANGED <<probe, mmVars, webhookSecret, now, prReviewState, configCache,
                   metrics, comments>>

\* A handler that marks a pull request without changed files as reviewed.
FilesReturnMarkingSkip(t) ==
    /\ tasks[t].pc = "files"
    /\ \E files \in ChangedFiles :
          IF tasks[t].eventType = "pull_request" /\ Len(files) = 0
          THEN /\ tasks' = [tasks EXCEPT
                              ![t] = Skipped([@ EXCEPT !.files = JArr(files)],
                                             "No files changed")]
               /\ metrics' = metrics
               /\ prReviewState' =
                     [prReviewState EXCEPT
                        ![tasks[t].key] = [timestamp |-> now, commentId |-> 0]]
          ELSE LET next == reviewPullRequest(tasks[t], files, metrics)
               IN  /\ tasks' = [tasks EXCEPT ![t] = next.task]
                   /\ metrics' = next.metrics
                   /\ prReviewState' = prReviewState
    /\ UNCHANGED <<probe, mmVars, webhookSecret, now, configCache, comments>>

\* getPullRequestFiles returns the changed files.  Only
\* processPullRequestEvent looks at their number.
FilesReturn(t) ==
    /\ tasks[t].pc = "files"
    /\ \E files \in ChangedFiles :
          IF tasks[t].eventType = "pull_request" /\ Len(files) = 0
          THEN /\ tasks' = [tasks EXCEPT
                              ![t] = Skipped([@ EXCEPT !.files = JArr(files)],
                                             "No files changed")]
               /\ metrics' = metrics
          ELSE LET next == reviewPullRequest(tasks[t], files, metrics)
               IN  /\ tasks' = [tasks EXCEPT ![t] = next.task]
                   /\ metrics' = next.metrics
    /\ UNCHANGED <<probe, mmVars, webhookSecret, now, prReviewState, configCache,
                   comments>>

\* getFileContent returns a document, answers 404, or fails otherwise; the
\* policy is cached either way and the review goes on.
PolicyReturn(t) ==
    /\ tasks[t].pc = "policy"
    /\ \E outcome \in PolicyOutcomes :
          LET settled == getRepositoryConfigSettled(configCache, tasks[t].key,
                                                    outcome)
              next == reviewWithConfig(tasks[t], settled.config, metrics)
          IN  /\ configCache' = settled.cache
              /\ tasks' = [tasks EXCEPT ![t] = next.task]
              /\ metrics' = next.metrics
    /\ UNCHANGED <<probe, mmVars, webhookSecret, now, prReviewState, comments>>

\* The primary provider's invokeModel resolves or rejects.
PrimaryReturn(t) ==
    /\ tasks[t].pc = "primary"
    /\ \E ok \in BOOLEAN, txt \in ReviewTexts :
          LET call == IF ok THEN invokeModelPrimaryOk(tasks[t].call, txt)
                      ELSE invokeModelPrimaryFailed(tasks[t].call)
              next == CASE call.pc = "returned" ->
                             modelReturned(tasks[t], call, metrics)
                        [] call.pc = "fallback" ->
                             Step(Await([tasks[t] EXCEPT !.call = call],
                                        "fallback", "invokeModel"), metrics)
                        [] OTHER -> modelFailed(tasks[t], call, metrics)
          IN  /\ tasks' = [tasks EXCEPT ![t] = next.task]
              /\ metrics' = next.metrics
    /\ UNCHANGED <<probe, mmVars, webhookSecret, now, prReviewState, configCache,
                   comments>>

\* The fallback provider's invokeModel resolves or rejects.
FallbackReturn(t) ==
    /\ tasks[t].pc = "fallback"
    /\ \E ok \in BOOLEAN, txt \in ReviewTexts :
          LET call == IF ok THEN invokeModelFallbackOk(tasks[t].call, txt)
                      ELSE invokeModelFallbackFailed(tasks[t].call)
              next == IF call.pc = "returned"
                      THEN modelReturned(tasks[t], call, metrics)
                      ELSE modelFailed(tasks[t], call, metrics)
          IN  /\ tasks' = [tasks EXCEPT ![t] = next.task]
              /\ metrics' = next.metrics
    /\ UNCHANGED <<probe, mmVars, webhookSecret, now, prReviewState, configCache,
                   comments>>

\* A createComment that throws after the comment was created.
CommentFailPosted(t) ==
    /\ tasks[t].pc = "comment"
    /\ comments' = Append(comments,
                          [id |-> Len(comments) + 1, key |-> tasks[t].key])
    /\ tasks' = [tasks EXCEPT ![t] = Caught(@, GithubError("createComment"))]
    /\ UNCHANGED <<probe, mmVars, webhookSecret, now, prReviewState, configCache,
                   metrics>>

\* A handler that records the review in the dedup map before it posts the
\* comment, so that a failed post leaves the entry behind.
CommentFailRecorded(t) ==
    /\ tasks[t].pc = "comment"
    /\ tasks' = [tasks EXCEPT ![t] = Caught(@, GithubError("createComment"))]
    /\ prReviewState' =
          IF tasks[t].eventType = "pull_request"
          THEN [prReviewState EXCEPT
                  ![tasks[t].key] = [timestamp |-> now, commentId |-> 0]]
          ELSE prReviewState
    /\ UNCHANGED <<probe, mmVars, webhookSecret, now, configCache, metrics,
                   comments>>

\* createComment throws.
CommentFail(t) ==
    /\ tasks[t].pc = "comment"
    /\ tasks' = [tasks EXCEPT ![t] = Caught(@, GithubError("createComment"))]
    /\ UNCHANGED <<probe, mmVars, webhookSecret, now, prReviewState, configCache,
                   metrics, comments>>

\* A dedup map in which a second review of a pull request removes the entry
\* of the first.
CommentReturnToggling(t) ==
    /\ tasks[t].pc = "comment"
    /\ LET id == Len(comments) + 1
           task == tasks[t]
       IN  /\ comments' = Append(comments,
                                 [id |-> id, key |-> task.key])
           /\ prReviewState' =
                 IF task.eventType = "pull_request"
                 THEN [prReviewState EXCEPT
                         ![task.key] =
                            IF @ = NoEntry
                            THEN [timestamp |-> now, commentId |-> id]
                            ELSE NoEntry]
                 ELSE prReviewState
           /\ tasks' = [tasks EXCEPT
                          ![t] = Respond(@, 200,
                                         [NoResult EXCEPT
                                             !.processed = JBool(TRUE),
                                             !.commentId = id])]
           /\ metrics' = Count(Count(metrics, "commentsPosted"),
                               "webhooksProcessed")
    /\ UNCHANGED <<probe, mmVars, webhookSecret, now, configCache>>

\* createComment returns the new comment.  processPullRequestEvent records
\* the review in prReviewState; processIssueCommentEvent does not.
CommentReturn(t) ==
    /\ tasks[t].pc = "comment"
    /\ LET id == Len(comments) + 1
           task == tasks[t]
       IN  /\ comments' = Append(comments,
                                 [id |-> id, key |-> task.key])
           /\ prReviewState' =
                 IF task.eventType = "pull_request"
                 THEN [prReviewState EXCEPT
                         ![task.key] = [timestamp |-> now, commentId |-> id]]
                 ELSE prReviewState
           /\ tasks' = [tasks EXCEPT
                          ![t] = Respond(@, 200,
                                         [NoResult EXCEPT
                                             !.processed = JBool(TRUE),
                                             !.commentId = id])]
           /\ metrics' = Count(Count(metrics, "commentsPosted"),
                               "webhooksProcessed")
    /\ UNCHANGED <<probe, mmVars, webhookSecret, now, configCache>>

\* Time passes.  The clock is read when a request is received (the dedup
\* check) and when createComment has returned (the dedup entry), so time is
\* let pass only where one of the two can happen next.
Tick ==
    /\ \E t \in Slots : CanReceive(t) \/ tasks[t].pc = "comment"
    /\ \E later \in Instants : later > now /\ now' = later
    /\ UNCHANGED <<probe, mmVars, webhookSecret, prReviewState, configCache, metrics,
                   comments, tasks>>

(***************************************************************************)
(* Construction                                                            *)
(***************************************************************************)
NoProviders == [n \in ProviderNames |-> NoProvider]

\* No ReviewPolicyManager function has been called on its own.
NoProbe == [op |-> None]

\* AIService.initializeProviders: bedrock is always configured, openai and
\* anthropic when they have an API key; a constructor that throws ends the
\* registration.  names is the sequence of providers constructed.
RECURSIVE initializeProviders(_, _, _, _)
initializeProviders(names, map, def, cfgDefault) ==
    IF names = <<>> THEN [providers |-> map, defaultProvider |-> def]
    ELSE LET p == Instance(Head(names), 1)
         IN  initializeProviders(Tail(names), registerProviderMap(map, p),
                                 registerProviderDefault(def, cfgDefault, p),
                                 cfgDefault)

\* The deployments the webhook server is started in: the providers whose
\* construction succeeded, and AI_DEFAULT_PROVIDER.
Deployments ==
    {[names |-> <<>>, cfgDefault |-> "bedrock"],
     [names |-> <<"bedrock">>, cfgDefault |-> "bedrock"],
     [names |-> <<"bedrock", "openai">>, cfgDefault |-> "openai"]}

InitHook ==
    /\ now = 0
    /\ prReviewState = [k \in Keys |-> NoEntry]
    /\ configCache = [k \in Keys |-> JUndef]
    /\ metrics = [webhooksReceived |-> 0, webhooksProcessed |-> 0,
                  aiCallsMade |-> 0, aiCallsSucceeded |-> 0,
                  aiCallsFailed |-> 0, commentsPosted |-> 0]
    /\ comments = <<>>
    /\ tasks = [t \in Slots |-> NoTask]

Init ==
    /\ \E d \in Deployments :
          LET reg == initializeProviders(d.names, NoProviders, NoProvider,
                                         d.cfgDefault)
          IN  /\ providers = reg.providers
              /\ defaultProvider = reg.defaultProvider
              /\ configDefault = d.cfgDefault
    /\ nextInstance = 1
    /\ mmCall = NoCall
    /\ webhookSecret \in BOOLEAN
    /\ InitHook
    /\ probe = NoProbe

TaskStep(t) ==
    \/ DetailsReturn(t)
    \/ FilesFail(t)
    \/ FilesReturn(t)
    \/ PolicyReturn(t)
    \/ PrimaryReturn(t)
    \/ FallbackReturn(t)
    \/ CommentFail(t)
    \/ CommentReturn(t)

Receive(t) ==
    \/ ReceiveUnverified(t)
    \/ ReceivePullRequest(t)
    \/ ReceiveIssueComment(t)
    \/ ReceiveOtherEvent(t)

\* Webhooks handled one after another: the next request arrives when the
\* response to the previous one has been sent.
Next ==
    \/ Receive(1)
    \/ TaskStep(1)
    \/ Tick

Spec == Init /\ [][Next]_vars

\* The continuations of a pull_request delivery.
PullRequestStep(t) ==
    \/ FilesFail(t)
    \/ FilesReturn(t)
    \/ PolicyReturn(t)
    \/ PrimaryReturn(t)
    \/ FallbackReturn(t)
    \/ CommentFail(t)
    \/ CommentReturn(t)

\* The pull request whose webhooks are delivered close together, and the
\* actions they carry.
SamePullRequest == "acme/widgets/42"

SameActions == {"opened", "synchronize"}

\* A dedup check that records the entry in the step that reads it.
ReceiveSamePullRequestReserving(t) ==
    /\ CanReceive(t)
    /\ Verified(TRUE, "raw", "valid")
    /\ \E action \in SameActions :
          LET task == handleWebHook([Request(TRUE, "raw", "valid") EXCEPT
                                       !.eventType = "pull_request",
                                       !.action = action,
                                       !.key = SamePullRequest])
          IN  /\ tasks' = [tasks EXCEPT ![t] = task]
              /\ prReviewState' =
                    IF task.pc = "files"
                    THEN [prReviewState EXCEPT
                            ![SamePullRequest] = [timestamp |-> now,
                                                  commentId |-> 0]]
                    ELSE prReviewState
    /\ metrics' = Count(metrics, "webhooksReceived")
    /\ UNCHANGED <<probe, mmVars, webhookSecret, now, configCache, comments>>

\* A pull_request webhook for the one pull request is received: handleWebHook
\* and processPullRequestEvent run up to the first await, which is after the
\* dedup check.
ReceiveSamePullRequest(t) ==
    /\ CanReceive(t)
    /\ Verified(TRUE, "raw", "valid")
    /\ \E action \in SameActions :
          tasks' = [tasks EXCEPT
                      ![t] = handleWebHook(
                                [Request(TRUE, "raw", "valid") EXCEPT
                                    !.eventType = "pull_request",
                                    !.action = action,
                                    !.key = SamePullRequest])]
    /\ metrics' = Count(metrics, "webhooksReceived")
    /\ UNCHANGED <<probe, mmVars, webhookSecret, now, prReviewState, configCache,
                   comments>>

\* Pull request webhooks handled as Node handles them: a second delivery is
\* received while the handler of the first is suspended at an await, and the
\* continuations of the two run in any order.
NextRace ==
    \/ \E t \in Slots : ReceiveSamePullRequest(t)
    \/ \E t \in Slots : PullRequestStep(t)
    \/ Tick

SpecRace == Init /\ [][NextRace]_vars


(***************************************************************************)
(* The ModelManager on its own: providers are registered, then invokeModel *)
(* is called with any options, one call at a time.  mmCall is the record   *)
(* of the call in progress or just finished.                               *)
(***************************************************************************)
InitMM ==
    /\ providers = NoProviders
    /\ defaultProvider = NoProvider
    /\ configDefault \in ProviderNames \cup {None}
    /\ nextInstance = 1
    /\ mmCall = NoCall
    /\ webhookSecret = TRUE
    /\ InitHook
    /\ probe = NoProbe

MMRegisterProvider ==
    /\ mmCall.pc = "idle"
    /\ nextInstance <= MaxInstances
    /\ \E n \in ProviderNames :
          LET p == Instance(n, nextInstance)
          IN  /\ providers' = registerProviderMap(providers, p)
              /\ defaultProvider' =
                    registerProviderDefault(defaultProvider, configDefault, p)
    /\ nextInstance' = nextInstance + 1
    /\ UNCHANGED <<configDefault, mmCall, hookVars, probe>>

MMInvokeModel ==
    /\ mmCall.pc = "idle"
    /\ \E options \in ModelOptions : mmCall' = invokeModelBegin(options)
    /\ UNCHANGED <<providers, defaultProvider, configDefault, nextInstance,
                   hookVars, probe>>

MMPrimaryReturn ==
    /\ mmCall.pc = "primary"
    /\ \/ \E txt \in Texts : mmCall' = invokeModelPrimaryOk(mmCall, txt)
       \/ mmCall' = invokeModelPrimaryFailed(mmCall)
    /\ UNCHANGED <<providers, defaultProvider, configDefault, nextInstance,
                   hookVars, probe>>

MMFallbackReturn ==
    /\ mmCall.pc = "fallback"
    /\ \/ \E txt \in Texts : mmCall' = invokeModelFallbackOk(mmCall, txt)
       \/ mmCall' = invokeModelFallbackFailed(mmCall)
    /\ UNCHANGED <<providers, defaultProvider, configDefault, nextInstance,
                   hookVars, probe>>

\* The caller has its result or its error; the manager keeps nothing of it.
MMFinish ==
    /\ mmCall.pc \in {"returned", "threw"}
    /\ mmCall' = NoCall
    /\ UNCHANGED <<providers, defaultProvider, configDefault, nextInstance,
                   hookVars, probe>>

NextMM ==
    \/ MMRegisterProvider
    \/ MMInvokeModel
    \/ MMPrimaryReturn
    \/ MMFallbackReturn
    \/ MMFinish

SpecMM == InitMM /\ [][NextMM]_vars

(***************************************************************************)
(* The functions of the ReviewPolicyManager on their own: each action      *)
(* calls one of them with arguments from a bounded set and keeps the       *)
(* arguments and the result in probe.  The functions keep no state, so    *)
(* one call per behaviour covers them.                                     *)
(***************************************************************************)
MaxPatternLen == 3     \* characters of a glob pattern
MaxPathLen == 3        \* characters of a file path
MaxPatterns == 2       \* entries of files.include and of files.exclude

PatternChars == {"*", "?", ".", "/", "a"}
PathChars == {"a", ".", "/"}

\* The strings of at most n characters over an alphabet.
Strings(chars, n) == UNION {[1..k -> chars] : k \in 0..n}

\* What yaml.load may return for a policy file: nothing, a scalar, a list, or
\* a mapping that sets some of the fields.
MergeDocuments ==
    <<JUndef,
      JStr("text"),
      JArr(<<>>),
      JObj([ai |-> JObj([provider |-> JStr("openai")])]),
      JObj([focus |-> JObj([security |-> JBool(FALSE)])]),
      JObj([focus |-> JStr("all")]),
      JObj([files |-> JObj([include |-> JArr(<<JStr("**/*.ts")>>)])]),
      JObj([custom_rules |-> JArr(<<JObj([name |-> JStr("no-todo")])>>)]),
      JObj([ai |-> JNull]),
      JObj([general |-> JObj([enabled |-> JBool(FALSE),
                              style |-> JStr("inline")]),
            severity |-> JObj([info |-> JBool(FALSE)])]),
      JObj([extra |-> JObj([x |-> JNum(1)])]),
      JObj([ai |-> JObj([provider |-> JStr("bedrock"),
                         enable_fallback |-> JBool(TRUE),
                         fallback_provider |-> JStr("openai")]),
            files |-> JObj([include |-> JArr(<<JStr("**/*.ts")>>),
                            exclude |-> JArr(<<JStr("**/*.test.ts")>>)])])>>

\* The patterns and paths shouldIncludeFile is called with.
NamedPatterns == {"**/*", "**/*.ts", "**/*.test.ts"}
NamedPaths ==
    {"src/a.ts", "src/b.ts", "src/a.test.ts", "src/lib/c.ts", "README.md"}

PatternLists == UNION {[1..k -> NamedPatterns] : k \in 0..MaxPatterns}

\* A policy with the given include and exclude lists.
FilesPolicy(include, exclude) ==
    JObj([files |->
            JObj([include |-> JArr([i \in 1..Len(include) |-> JStr(include[i])]),
                  exclude |-> JArr([i \in 1..Len(exclude) |-> JStr(exclude[i])])])])

\* Policy documents that parse and give a section a value of another shape
\* than the default's: null, a scalar, an empty list, or (files) a mapping
\* whose include is a string.
PolicySections == {"files", "focus", "severity", "custom_rules", "ai"}

ShapedDocuments ==
    {JObj([s \in {section} |-> value]) :
        section \in PolicySections,
        value \in {JNull, JStr("text"), JBool(TRUE), JArr(<<>>)}}
    \cup {JObj([files |-> JObj([include |-> JStr("**/*")])])}

InitPolicy ==
    /\ providers = [NoProviders EXCEPT !["bedrock"] = Instance("bedrock", 1)]
    /\ defaultProvider = Instance("bedrock", 1)
    /\ configDefault = "bedrock"
    /\ nextInstance = 1
    /\ mmCall = NoCall
    /\ webhookSecret = TRUE
    /\ InitHook
    /\ probe = NoProbe

\* validateAndMergeConfig(doc), and the same document merged over the result.
CallMerge ==
    /\ probe = NoProbe
    /\ \E i \in 1..Len(MergeDocuments) :
          LET doc == MergeDocuments[i]
              merged == validateAndMergeConfig(doc)
          IN  probe' = [op |-> "merge", doc |-> doc, merged |-> merged,
                        again |-> mergeObjects(merged, doc)]
    /\ UNCHANGED <<mmVars, hookVars>>

\* matchesPattern(file, pattern)
CallMatchesPattern ==
    /\ probe = NoProbe
    /\ \E pattern \in Strings(PatternChars, MaxPatternLen),
          file \in Strings(PathChars, MaxPathLen) \ {<<>>} :
          probe' = [op |-> "match", pattern |-> pattern, file |-> file,
                    result |-> matchesPattern(file, pattern)]
    /\ UNCHANGED <<mmVars, hookVars>>

\* shouldIncludeFile(path, policy)
CallShouldIncludeFile ==
    /\ probe = NoProbe
    /\ \E path \in NamedPaths, include \in PatternLists,
          exclude \in PatternLists :
          probe' = [op |-> "include", path |-> path, include |-> include,
                    exclude |-> exclude,
                    result |-> shouldIncludeFile(Chars(path),
                                                 FilesPolicy(include, exclude))]
    /\ UNCHANGED <<mmVars, hookVars>>

\* reviewPullRequest from a policy document that parsed: the document is
\* merged over the defaults, the prompt is rendered from the changed files
\* and the model is invoked, or the catch block has the failure message.
CallReviewWithPolicy ==
    /\ probe = NoProbe
    /\ \E doc \in ShapedDocuments \cup PolicyDocuments,
          files \in ChangedFiles \ {<<>>}, key \in Keys :
          LET config == validateAndMergeConfig(doc)
              task == [NoTask EXCEPT !.key = key, !.files = JArr(files),
                                     !.eventType = "pull_request"]
          IN  probe' = [op |-> "review", doc |-> doc, config |-> config,
                        task |-> reviewWithConfig(task, config, metrics).task]
    /\ UNCHANGED <<mmVars, hookVars>>

\* The regular expressions of custom rules, by their source: a literal
\* ('a', 'ab', and the empty pattern), 'a*', and '(' which new RegExp
\* rejects.
RulePatterns ==
    {[kind |-> "literal", chars |-> <<"a">>],
     [kind |-> "literal", chars |-> <<"a", "b">>],
     [kind |-> "literal", chars |-> <<>>],
     [kind |-> "star", chars |-> <<"a">>],
     [kind |-> "invalid", chars |-> <<"(">>]}

CustomRules == {[name |-> p, pattern |-> p] : p \in RulePatterns}

ContentChars == {"a", "b", "\n"}

\* The length of the pattern's match that starts at index i (0-based), -1
\* without one; a* matches the run of a's that starts there.
MatchLen(pattern, content, i) ==
    IF pattern.kind = "star"
    THEN LET rest == {j \in i..Len(content) :
                        j = Len(content) \/ content[j + 1] # pattern.chars[1]}
         IN  (CHOOSE j \in rest : \A k \in rest : j <= k) - i
    ELSE LET n == Len(pattern.chars)
         IN  IF i + n <= Len(content)
                /\ SubSeq(content, i + 1, i + n) = pattern.chars
             THEN n
             ELSE -1

NoMatch == [index |-> -1, length |-> 0]

\* regex.exec(content) of a global regex whose lastIndex is lastIndex: the
\* leftmost match at or after it; the caller's lastIndex becomes its end.
exec(pattern, content, lastIndex) ==
    LET starts == {i \in lastIndex..Len(content) :
                      MatchLen(pattern, content, i) >= 0}
    IN  IF starts = {} THEN NoMatch
        ELSE LET index == CHOOSE i \in starts : \A j \in starts : i <= j
             IN  [index |-> index, length |-> MatchLen(pattern, content, index)]

\* (content.substring(0, index).match(/\n/g) || []).length + 1
lineNumber(content, index) ==
    Cardinality({j \in 1..index : content[j] = "\n"}) + 1

\* The while loop of applyCustomRules for one rule.  exec leaves lastIndex
\* where it was after an empty match, so the next exec returns the same
\* match and the loop never ends.
RECURSIVE execLoop(_, _, _, _)
execLoop(rule, content, lastIndex, violations) ==
    LET m == exec(rule.pattern, content, lastIndex)
    IN  IF m = NoMatch
        THEN [kind |-> "returned", violations |-> violations]
        ELSE IF m.length = 0
        THEN [kind |-> "hangs", violations |-> <<>>]
        ELSE execLoop(rule, content, m.index + m.length,
                      Append(violations,
                             [rule |-> rule.name,
                              line |-> lineNumber(content, m.index),
                              match |-> SubSeq(content, m.index + 1,
                                               m.index + m.length)]))

\* customRules.flatMap: new RegExp throws for an invalid pattern and the
\* catch block returns no violations for the rule.
RECURSIVE applyCustomRules(_, _)
applyCustomRules(content, customRules) ==
    IF customRules = <<>> THEN [kind |-> "returned", violations |-> <<>>]
    ELSE LET rule == Head(customRules)
             first == IF rule.pattern.kind = "invalid"
                      THEN [kind |-> "returned", violations |-> <<>>]
                      ELSE execLoop(rule, content, 0, <<>>)
             rest == applyCustomRules(content, Tail(customRules))
         IN  IF first.kind = "hangs" \/ rest.kind = "hangs"
             THEN [kind |-> "hangs", violations |-> <<>>]
             ELSE [kind |-> "returned",
                   violations |-> first.violations \o rest.violations]

\* applyCustomRules(filePath, content, customRules)
CallApplyCustomRules ==
    /\ probe = NoProbe
    /\ \E content \in Strings(ContentChars, MaxContentLen),
          customRules \in Strings(CustomRules, MaxRules) :
          probe' = [op |-> "rules", content |-> content,
                    rules |-> customRules,
                    result |-> applyCustomRules(content, customRules)]
    /\ UNCHANGED <<mmVars, hookVars>>

\* The files of a snapshot: binary, without a patch, and with patches
\* around the size limit.
SnapshotFiles ==
    {File(name, v.isBinary, v.patch) :
        name \in {"src/a.ts", "src/a.test.ts", "README.md"},
        v \in {[isBinary |-> JBool(TRUE), patch |-> JUndef],
               [isBinary |-> JBool(FALSE), patch |-> JUndef],
               [isBinary |-> JUndef, patch |-> JText("diff", 120)],
               [isBinary |-> JUndef, patch |-> JText("diff", PatchLimit)],
               [isBinary |-> JUndef, patch |-> JText("diff", PatchLimit + 1)]}}

\* generateCustomizedPrompt(prData, config) under the default policy and
\* under a repository's policy.
CallGenerateCustomizedPrompt ==
    /\ probe = NoProbe
    /\ \E files \in Strings(SnapshotFiles, MaxFiles),
          doc \in PolicyDocuments \cup {JUndef} :
          LET config == validateAndMergeConfig(doc)
              prData == [title |-> PrTitle, body |-> PrBody, files |-> files]
          IN  probe' = [op |-> "prompt", files |-> files, config |-> config,
                        prompt |-> generateCustomizedPrompt(prData, config)]
    /\ UNCHANGED <<mmVars, hookVars>>

NextPolicy ==
    \/ CallApplyCustomRules
    \/ CallGenerateCustomizedPrompt
    \/ CallMerge
    \/ CallReviewWithPolicy
    \/ CallMatchesPattern
    \/ CallShouldIncludeFile

SpecPolicy == InitPolicy /\ [][NextPolicy]_vars

(***************************************************************************)
(* getRepositoryConfig on its own: policies are resolved one call after    *)
(* another; probe is the call in progress or just finished, with the       *)
(* number of remote queries made for each key.                             *)
(***************************************************************************)
MaxResolves == 5       \* getRepositoryConfig calls in one run

NoResolve ==
    [op |-> "resolve", pc |-> "idle", key |-> None, outcome |-> None,
     result |-> JUndef, resolves |-> 0, queries |-> [k \in Keys |-> 0],
     cleared |-> {}, prototype |-> ObjectPrototype]

\* Policy documents with an own '__proto__' key, at the top and in a section,
\* as yaml.load returns them for a mapping that has the key.
PrototypeDocuments ==
    {JObj([key \in {"__proto__"} |->
             JObj([provider |-> JStr("openai")])]),
     JObj([ai |-> JObj([key \in {"__proto__"} |->
                          JObj([model_id |-> JStr("gpt-4")])])])}

\* How the fetch of the policy file ends for the cache alone.
FetchOutcomes ==
    PolicyOutcomes
    \cup {[kind |-> "document", doc |-> d] : d \in PrototypeDocuments}

InitPolicyCache ==
    /\ providers = NoProviders
    /\ defaultProvider = NoProvider
    /\ configDefault = None
    /\ nextInstance = 1
    /\ mmCall = NoCall
    /\ webhookSecret = TRUE
    /\ InitHook
    /\ probe = NoResolve

\* A getRepositoryConfig that does not look into the cache.
CallGetRepositoryConfigRefetching ==
    /\ probe.pc \in {"idle", "returned"}
    /\ probe.resolves < MaxResolves
    /\ \E key \in Keys :
          probe' = [probe EXCEPT !.pc = "fetching", !.key = key,
                                 !.outcome = None, !.result = JUndef,
                                 !.resolves = @ + 1,
                                 !.queries[key] = @ + 1]
    /\ UNCHANGED <<mmVars, hookVars>>

\* getRepositoryConfig up to its await: answer from the cache, or ask the
\* source-control client for the policy file.
CallGetRepositoryConfig ==
    /\ probe.pc \in {"idle", "returned"}
    /\ probe.resolves < MaxResolves
    /\ \E key \in Keys :
          probe' =
             IF configCache[key] # JUndef
             THEN [probe EXCEPT !.pc = "returned", !.key = key,
                                !.outcome = "cached",
                                !.result = configCache[key],
                                !.resolves = @ + 1]
             ELSE [probe EXCEPT !.pc = "fetching", !.key = key,
                                !.outcome = None, !.result = JUndef,
                                !.resolves = @ + 1,
                                !.queries[key] = @ + 1]
    /\ UNCHANGED <<mmVars, hookVars>>

\* getFileContent settles.
PolicyFetchReturn ==
    /\ probe.pc = "fetching"
    /\ \E outcome \in FetchOutcomes :
          LET settled == getRepositoryConfigSettled(configCache, probe.key,
                                                    outcome)
              prototype == IF outcome.kind = "document"
                           THEN prototypeAfter(probe.prototype, defaultConfig,
                                               outcome.doc)
                           ELSE probe.prototype
          IN  /\ configCache' = settled.cache
              /\ probe' = [probe EXCEPT !.pc = "returned",
                                        !.outcome = outcome.kind,
                                        !.result = settled.config,
                                        !.prototype = prototype]
    /\ UNCHANGED <<mmVars, webhookSecret, now, prReviewState, metrics, comments,
                   tasks>>

\* clearCache(), between two calls of getRepositoryConfig.  queries counts
\* the fetches since the cache was last empty; cleared is the set of triples
\* the call discarded.
CallClearCache ==
    /\ probe.pc \in {"idle", "returned"}
    /\ \E k \in Keys : configCache[k] # JUndef
    /\ configCache' = [k \in Keys |-> JUndef]
    /\ probe' = [probe EXCEPT !.pc = "idle", !.key = None, !.outcome = None,
                              !.result = JUndef,
                              !.queries = [k \in Keys |-> 0],
                              !.cleared = {k \in Keys : configCache[k] # JUndef}]
    /\ UNCHANGED <<mmVars, webhookSecret, now, prReviewState, metrics, comments,
                   tasks>>

NextPolicyCache ==
    \/ CallClearCache
    \/ CallGetRepositoryConfig
    \/ PolicyFetchReturn

SpecPolicyCache == InitPolicyCache /\ [][NextPolicyCache]_vars

(***************************************************************************)
(* The provider backends on their own: a provider is constructed from its  *)
(* configuration and invokeModel is called once with per-call options; the *)
(* backend answers with a response.  Temperatures are in tenths.           *)
(***************************************************************************)
DefaultMaxTokens == 1000

DefaultTemperature == 3

\* a || b and a ?? b.
OrElse(a, b) == IF Truthy(a) THEN a ELSE b

Coalesce(a, b) == IF a.t \in {"undef", "null"} THEN b ELSE a

\* The operator each backend writes its defaults with: ?? in the OpenAI
\* provider, || in the Bedrock and Anthropic providers.
Defaulted(backend, a, b) ==
    IF backend = "openai" THEN Coalesce(a, b) ELSE OrElse(a, b)

ParameterNames == {"modelId", "maxTokens", "temperature"}

\* The values a configuration or a call gives for the parameters.
ParameterValues ==
    [modelId : {JUndef, JStr("model-x")},
     maxTokens : {JUndef, JNum(0), JNum(2000)},
     temperature : {JUndef, JNum(0), JNum(7)}]

ParameterConstants(backend) ==
    [modelId |-> CASE backend = "bedrock" ->
                        JStr("amazon.titan-text-premier-v1:0")
                   [] backend = "anthropic" -> JStr("claude-3-opus-20240229")
                   [] OTHER -> JStr("gpt-4"),
     maxTokens |-> JNum(DefaultMaxTokens),
     temperature |-> JNum(DefaultTemperature)]

\* The provider constructors: the fields this.modelId, this.maxTokens and
\* this.temperature.
providerConstructor(backend, config) ==
    [p \in ParameterNames |->
        Defaulted(backend, config[p], ParameterConstants(backend)[p])]

\* The parameters invokeModel sends to the backend.
requestParameters(backend, fields, options) ==
    [p \in ParameterNames |-> Defaulted(backend, options[p], fields[p])]

\* What a backend answers: no content list, an empty one, or one whose first
\* block has a text, has none, or has null for it.  For the OpenAI backend
\* the list is response.choices and the text is message.content.
BackendResponses ==
    {JUndef, JArr(<<>>), JArr(<<JObj([type |-> JStr("image")])>>),
     JArr(<<JObj([text |-> JNull])>>),
     JArr(<<JObj([text |-> JStr("review")])>>),
     JArr(<<JObj([text |-> JStr("")]), JObj([text |-> JStr("more")])>>)}

\* invokeModel returns the text.
Returned(text) == [kind |-> "returned", text |-> text, error |-> NoError]

\* Reading a property of undefined throws a TypeError, which the catch block
\* of invokeModel rethrows.
Threw ==
    [kind |-> "threw", text |-> JUndef,
     error |-> [name |-> "TypeError",
                message |-> "Cannot read properties of undefined"]]

\* The text each invokeModel extracts from the backend's response: First is
\* list[0] and OptionalText is x?.text.
extractText(backend, response) ==
    LET First(list) == IF Len(list.v) > 0 THEN list.v[1] ELSE JUndef
        OptionalText(x) ==
            IF x.t \in {"undef", "null"} THEN JUndef ELSE Prop(x, "text")
    IN  CASE backend = "bedrock" ->
               LET content == Coalesce(response, JArr(<<>>))
               IN  Returned(Coalesce(OptionalText(First(content)), JStr("")))
          [] backend = "anthropic" ->
               IF response.t = "undef" THEN Threw
               ELSE LET aiContent == OptionalText(First(response))
                    IN  IF aiContent.t \in {"undef", "null"}
                        THEN Threw
                        ELSE Returned(aiContent)
          [] OTHER ->
               IF response.t = "undef" \/ First(response).t = "undef"
               THEN Threw
               ELSE Returned(Coalesce(Prop(First(response), "text"),
                                      JStr("")))

InitProvider ==
    /\ providers = NoProviders
    /\ defaultProvider = NoProvider
    /\ configDefault = None
    /\ nextInstance = 1
    /\ mmCall = NoCall
    /\ webhookSecret = FALSE
    /\ InitHook
    /\ probe = NoProbe

\* One provider is constructed and invoked once.
CallProviderInvokeModel ==
    /\ probe = NoProbe
    /\ \E backend \in ProviderNames, config \in ParameterValues,
          options \in ParameterValues, response \in BackendResponses :
          LET fields == providerConstructor(backend, config)
          IN  probe' = [op |-> "invoke", backend |-> backend,
                        config |-> config, options |-> options,
                        response |-> response,
                        request |-> requestParameters(backend, fields, options),
                        result |-> extractText(backend, response)]
    /\ UNCHANGED <<mmVars, hookVars>>

NextProvider == CallProviderInvokeModel

SpecProvider == InitProvider /\ [][NextProvider]_vars

(***************************************************************************)
(* The webhook server under the assumption that every awaited call         *)
(* settles                                                                 *)
(***************************************************************************)
\* The deployment with both providers constructed and the secret configured.
InitLive ==
    /\ Init
    /\ webhookSecret = TRUE
    /\ configDefault = "openai"

\* Slot 1 takes requests of every kind; slot 2 takes pull_request deliveries
\* for the one pull request while slot 1 is suspended at an await.
NextLive ==
    \/ Receive(1)
    \/ ReceiveSamePullRequest(2)
    \/ \E t \in Slots : TaskStep(t)

\* Every awaited call of slot t settles: once the promise of the
\* source-control client or of the provider is settled, Node runs the
\* continuation.  For getFileContent the weak fairness of PolicyReturn(t) is
\* written out, PolicyReturn(t) being enabled exactly when the slot is at
\* the policy fetch.
Settles(t) ==
    /\ WF_vars(DetailsReturn(t))
    /\ WF_vars(FilesFail(t) \/ FilesReturn(t))
    /\ \/ []<>(tasks[t].pc # "policy")
       \/ []<><<PolicyReturn(t)>>_vars
    /\ WF_vars(PrimaryReturn(t))
    /\ WF_vars(FallbackReturn(t))
    /\ WF_vars(CommentFail(t) \/ CommentReturn(t))

SpecLive ==
    /\ InitLive
    /\ [][NextLive]_vars
    /\ \A t \in Slots : Settles(t)

(***************************************************************************)
(* Properties                                                              *)
(***************************************************************************)
IsVerified(task) == Verified(task.bound, task.body, task.signature)

Done(t) == tasks[t].pc = "done"

\* The response of a skipped event: 200, {processed: false, reason}.
IsSkipped(task, reason) ==
    /\ task.pc = "done"
    /\ task.status = 200
    /\ task.result = [NoResult EXCEPT !.processed = JBool(FALSE),
                                      !.reason = reason]

\* A slot takes a new request in this step.
Received(t) == Idle(t) /\ tasks'[t] # tasks[t]

\* C1: a request whose signature is tampered, malformed or missing is
\* answered 401 and the handler has called none of its collaborators.
C1_InvalidSignatureIs401 ==
    \A t \in Slots :
        (Done(t) /\ tasks[t].signature \in {"tampered", "malformed", "missing"})
        => (tasks[t].status = 401 /\ tasks[t].calls = <<>>)

\* C2 (first half): reviews of one pull request that were all requested
\* within the first cool-down window of the run, handled one after another,
\* leave at most one posted comment for it.
C2_OneCommentPerWindow ==
    \A k \in Keys :
        now < Cooldown
        => Cardinality({i \in 1..Len(comments) : comments[i].key = k}) <= 1

\* The fallback named by the options is registered and is not the primary.
FallbackConfigured(call) ==
    /\ call.options.enableFallback = JBool(TRUE)
    /\ call.options.fallbackProvider # None
    /\ providers[call.options.fallbackProvider] # NoProvider
    /\ call.options.fallbackProvider # call.primary.name

PrimaryFailed(call) ==
    Len(call.attempts) >= 1 /\ call.attempts[1].outcome = "failed"

\* C3: when the primary fails and a registered, distinct fallback is enabled,
\* the fallback is invoked and, if it succeeds, the result has usedFallback
\* true, the fallback's name and the fallback's output; when enableFallback
\* is not true or no fallbackProvider is given, the call throws the primary's
\* error after one attempt.
C3_FallbackResult ==
    /\ (PrimaryFailed(mmCall) /\ FallbackConfigured(mmCall))
       => /\ Len(mmCall.attempts) = 2
          /\ mmCall.attempts[2].provider
                = providers[mmCall.options.fallbackProvider]
          /\ mmCall.attempts[2].outcome = "ok"
             => /\ mmCall.pc = "returned"
                /\ mmCall.response =
                      [content |-> Content(mmCall.attempts[2].provider,
                                           mmCall.attempts[2].text),
                       provider |-> mmCall.options.fallbackProvider,
                       modelId |-> mmCall.options.modelId,
                       usedFallback |-> JBool(TRUE)]
    /\ (PrimaryFailed(mmCall)
        /\ (~Truthy(mmCall.options.enableFallback)
            \/ mmCall.options.fallbackProvider = None))
       => /\ mmCall.pc = "threw"
          /\ Len(mmCall.attempts) = 1
          /\ mmCall.error = ProviderError(mmCall.primary)

C3_Witness ==
    /\ mmCall.pc = "returned"
    /\ PrimaryFailed(mmCall)
    /\ FallbackConfigured(mmCall)
    /\ mmCall.response.usedFallback = JBool(TRUE)

\* C4: a second provider is invoked only if enableFallback is true and
\* fallbackProvider names a provider registered under that name and distinct
\* from the primary; otherwise the call throws the primary's error after one
\* attempt.
C4_FallbackOnlyIfRegistered ==
    PrimaryFailed(mmCall)
    => IF FallbackConfigured(mmCall)
       THEN Len(mmCall.attempts) = 2
       ELSE /\ Len(mmCall.attempts) = 1
            /\ mmCall.pc = "threw"
            /\ mmCall.error = ProviderError(mmCall.primary)

\* C5: every response is 200 or 401, 401 only when the signature check
\* returned false, and a 200 body is {processed: bool} with a reason, a
\* commentId or an error.
C5_AlwaysAnswers ==
    \A t \in Slots :
        Done(t)
        => /\ tasks[t].status \in {200, 401}
           /\ tasks[t].status = 401
              => /\ tasks[t].bound
                 /\ validateWebhookSignature(tasks[t].body, tasks[t].signature,
                                             webhookSecret) = "false"
           /\ tasks[t].status = 200
              => /\ tasks[t].result.processed \in {JBool(TRUE), JBool(FALSE)}
                 /\ \/ tasks[t].result.reason # None
                    \/ tasks[t].result.commentId # 0
                    \/ tasks[t].result.error # None

\* A collaborator failed at every stage it can fail at.
C5_Witness ==
    /\ Done(1)
    /\ tasks[1].status = 200
    /\ tasks[1].call.pc = "threw"
    /\ tasks[1].result.error = GithubError("createComment").message

\* C6: when the model invocation of a review throws, nothing but
\* createComment is called afterwards, its body is the failure message with
\* the error, and the response is 200.
C6_ModelFailureIsCommented ==
    \A t \in Slots :
        tasks[t].call.pc = "threw"
        => /\ tasks[t].pc \in {"comment", "done"}
           /\ tasks[t].review = failureComment(tasks[t].call.error)
           /\ tasks[t].review.error # NoError
           /\ tasks[t].calls[Len(tasks[t].calls)] = "createComment"
           /\ Done(t) => tasks[t].status = 200

C6_Witness ==
    /\ Done(1)
    /\ tasks[1].call.pc = "threw"
    /\ Len(tasks[1].call.attempts) = 2
    /\ tasks[1].result.processed = JBool(TRUE)
    /\ comments # <<>>

\* The handler went past the classification of a pull_request event.
PastPullRequestClassification(task) ==
    \/ task.pc = "files" /\ task.calls = <<"getPullRequestFiles">>
    \/ IsSkipped(task, "PR was recently processed")

C7_Step(t) ==
    LET task == tasks'[t]
    IN  (Received(t) /\ IsVerified(task))
        => /\ task.eventType = "pull_request"
              => (task.action \in {"opened", "synchronize", "reopened"}
                  <=> PastPullRequestClassification(task))
           /\ (\/ /\ task.eventType = "pull_request"
                  /\ task.action \notin {"opened", "synchronize", "reopened"}
               \/ task.eventType \notin {"pull_request", "issue_comment"})
              => /\ \E reason \in {"Action not supported",
                                   "Event type not supported"} :
                       IsSkipped(task, reason)
                 /\ task.calls = <<>>
                 /\ comments' = comments
                 /\ metrics'.webhooksProcessed = metrics.webhooksProcessed

\* C7: a verified pull_request event goes on to review iff its action is
\* opened, synchronize or reopened; any other pull_request action and any
\* event type other than pull_request and issue_comment is answered 200 with
\* processed false and a reason, with no comment posted and webhooksProcessed
\* left as it was.
C7_PullRequestClassification == [][\A t \in Slots : C7_Step(t)]_vars

C7_Witness ==
    /\ IsVerified(tasks[1])
    /\ tasks[1].eventType = "pull_request"
    /\ tasks[1].action = "closed"
    /\ IsSkipped(tasks[1], "Action not supported")

C8_Step(t) ==
    LET task == tasks'[t]
        triggers == /\ task.action = "created"
                    /\ task.isPullRequest
                    /\ task.hasTrigger
    IN  (Received(t) /\ IsVerified(task) /\ task.eventType = "issue_comment")
        => /\ triggers
              <=> (task.pc = "details"
                   /\ task.calls = <<"getPullRequestDetails">>)
           /\ (task.action = "created" /\ task.isPullRequest
               /\ ~task.hasTrigger)
              => /\ IsSkipped(task, "Comment does not contain review trigger")
                 /\ task.calls = <<>>
                 /\ task.call = NoCall

\* C8: a verified issue_comment event starts a review iff its action is
\* created, its issue is a pull request and its body has the token; a created
\* comment on a pull request without the token is answered processed false
\* with the reason "Comment does not contain review trigger" and no call to
\* the source-control client or the model is made.
C8_ManualTrigger == [][\A t \in Slots : C8_Step(t)]_vars

C8_Witness ==
    /\ IsVerified(tasks[1])
    /\ tasks[1].eventType = "issue_comment"
    /\ IsSkipped(tasks[1], "Comment does not contain review trigger")

\* C9: a task whose fetched list of changed files is empty ends skipped with
\* the reason "No files changed", and getPullRequestFiles is the last call it
\* made.
C9_NoFilesIsSkipped ==
    \A t \in Slots :
        tasks[t].files = JArr(<<>>)
        => /\ IsSkipped(tasks[t], "No files changed")
           /\ tasks[t].calls[Len(tasks[t].calls)] = "getPullRequestFiles"

\* The prompt has the file's diff in a code block.
Fenced(prompt, file) ==
    \E i \in 1..Len(prompt) :
        /\ prompt[i].kind = "fenced"
        /\ prompt[i].file = file.filename
        /\ prompt[i].body = file.patch

\* C10: for a verified pull_request/opened event with two changed text files
\* with patches of at most 10000 characters, reviewed under the default
\* policy, the prompt has the diff of both files in code blocks, and when the
\* model returned and the comment was posted, the response is processed true
\* with the id of the comment.
C10_DefaultPolicyPrompt ==
    \A t \in Slots :
        LET task == tasks[t]
        IN  (/\ IsVerified(task)
             /\ task.eventType = "pull_request"
             /\ task.action = "opened"
             /\ task.repoConfig = defaultConfig
             /\ task.files.t = "arr"
             /\ Len(task.files.v) = 2
             /\ \A i \in 1..2 : /\ ~Truthy(task.files.v[i].isBinary)
                                /\ task.files.v[i].patch.n <= PatchLimit)
            => /\ \A i \in 1..2 : Fenced(task.prompt, task.files.v[i])
               /\ (task.pc = "done" /\ task.call.pc = "returned"
                   /\ task.result.error = None)
                  => /\ task.status = 200
                     /\ task.result.processed = JBool(TRUE)
                     /\ task.result.commentId = Len(comments)

\* The value the merge must give a key: the document's value, merged one
\* level down when both sides are plain objects, or the default when the
\* document does not set the key.
MergedField(default, doc, key) ==
    LET old == Prop(default, key)
        new == Prop(doc, key)
    IN  IF new = JUndef THEN old
        ELSE IF new.t = "obj" /\ old.t = "obj"
             THEN JObj([sub \in DOMAIN old.v \cup DOMAIN new.v |->
                          IF Prop(new, sub) # JUndef THEN Prop(new, sub)
                          ELSE Prop(old, sub)])
             ELSE new

\* C11: the merged policy keeps every default field the document does not
\* set and has the document's value for every field it sets, plain objects
\* merged field by field and arrays and scalars replaced whole; merging the
\* same document over the result changes nothing.
C11_MergeOverDefaults ==
    probe.op = "merge"
    => /\ IF probe.doc.t = "obj"
          THEN /\ DOMAIN probe.merged.v
                     = DOMAIN defaultConfig.v \cup DOMAIN probe.doc.v
               /\ \A key \in DOMAIN probe.merged.v :
                     probe.merged.v[key]
                        = MergedField(defaultConfig, probe.doc, key)
          ELSE probe.merged = defaultConfig
       /\ probe.again = probe.merged

C11_Witness ==
    /\ probe.op = "merge"
    /\ probe.doc = JObj([focus |-> JObj([security |-> JBool(FALSE)])])
    /\ probe.merged.v.focus.v.security = JBool(FALSE)
    /\ probe.merged.v.focus.v.performance = JBool(TRUE)
    /\ probe.merged.v.general = defaultConfig.v.general

\* The glob semantics of the specification: ** matches any characters, *
\* any run without a separator, ? one character, anything else itself.
RECURSIVE GlobMatch(_, _)
GlobMatch(pattern, path) ==
    IF pattern = <<>> THEN path = <<>>
    ELSE IF Len(pattern) >= 2 /\ pattern[1] = "*" /\ pattern[2] = "*"
         THEN \E k \in 0..Len(path) :
                 GlobMatch(SubSeq(pattern, 3, Len(pattern)),
                           SubSeq(path, k + 1, Len(path)))
    ELSE IF Head(pattern) = "*"
         THEN \E k \in 0..Len(path) :
                 /\ \A j \in 1..k : path[j] # "/"
                 /\ GlobMatch(Tail(pattern), SubSeq(path, k + 1, Len(path)))
    ELSE IF Head(pattern) = "?"
         THEN path # <<>> /\ GlobMatch(Tail(pattern), Tail(path))
    ELSE /\ path # <<>>
         /\ Head(path) = Head(pattern)
         /\ GlobMatch(Tail(pattern), Tail(path))

\* C13: matchesPattern agrees with the glob semantics for every pattern and
\* path over the alphabet.
C13_GlobSemantics ==
    probe.op = "match"
    => (probe.result <=> GlobMatch(probe.pattern, probe.file))

\* C14: a path is included iff it matches, as a glob, at least one include
\* pattern and no exclude pattern.
C14_IncludeIffMatch ==
    probe.op = "include"
    => (probe.result
        <=> /\ \E i \in 1..Len(probe.include) :
                  GlobMatch(Chars(probe.include[i]), Chars(probe.path))
            /\ ~\E i \in 1..Len(probe.exclude) :
                  GlobMatch(Chars(probe.exclude[i]), Chars(probe.path)))

\* C12: a fetch that ends in not-found, another failure or a parse error
\* returns the default policy and caches it under the key; a key is queried
\* at the remote at most once, every later resolve being answered from the
\* cache with the cached policy.
C12_DefaultsAreCached ==
    /\ (probe.pc = "returned"
        /\ probe.outcome \in {"notfound", "error", "unparsable"})
       => /\ probe.result = defaultConfig
          /\ configCache[probe.key] = defaultConfig
    /\ (probe.pc = "returned" /\ probe.outcome = "cached")
       => /\ probe.result = configCache[probe.key]
          /\ probe.queries[probe.key] = 1
    /\ \A k \in Keys : probe.queries[k] <= 1

C12_Witness ==
    /\ probe.pc = "returned"
    /\ probe.outcome = "cached"
    /\ probe.result = defaultConfig
    /\ probe.queries[probe.key] = 1
    /\ probe.resolves >= 2

NoneRegistered == \A n \in ProviderNames : providers[n] = NoProvider

\* C15: the primary is the provider registered under options.provider when
\* there is one, otherwise the default provider; with no provider registered
\* the call throws the no-provider error and invokes nothing.
C15_PrimarySelection ==
    mmCall.pc # "idle"
    => /\ IF /\ mmCall.options.provider # None
             /\ providers[mmCall.options.provider] # NoProvider
          THEN mmCall.primary = providers[mmCall.options.provider]
          ELSE mmCall.primary = defaultProvider
       /\ NoneRegistered
          => /\ mmCall.pc = "threw"
             /\ mmCall.error = ErrNoProvider
             /\ mmCall.attempts = <<>>

\* The provider registered in this step.
Registering(n) ==
    /\ nextInstance' = nextInstance + 1
    /\ providers'[n] = Instance(n, nextInstance)

\* The default provider the registration policy asks for.
DefaultRule ==
    IF configDefault # None /\ providers[configDefault] # NoProvider
    THEN defaultProvider = providers[configDefault]
    ELSE IF nextInstance > 1 THEN defaultProvider.id = 1
    ELSE defaultProvider = NoProvider

\* C16: after every registration the default provider is the one registered
\* under the configured default name if there is one, otherwise the first
\* provider registered; registering a name that is neither the configured
\* default nor the first registration leaves the default as it was.
C16_DefaultProvider ==
    [][\A n \in ProviderNames :
          Registering(n)
          => /\ DefaultRule'
             /\ (n # configDefault /\ nextInstance > 1)
                => defaultProvider' = defaultProvider]_vars

C16_Witness ==
    /\ nextInstance = 4
    /\ configDefault # None
    /\ providers[configDefault].id = 3
    /\ defaultProvider.id = 3
    /\ \E n \in ProviderNames : providers[n].id = 1

\* C17: when the primary and the fallback both fail, the call throws the
\* fallback's error, which is not the primary's.
C17_FallbackErrorPropagates ==
    (Len(mmCall.attempts) = 2 /\ mmCall.attempts[2].outcome = "failed")
    => /\ mmCall.pc = "threw"
       /\ mmCall.error = ProviderError(mmCall.attempts[2].provider)
       /\ mmCall.error = mmCall.attempts[2].error
       /\ mmCall.error # mmCall.attempts[1].error

C17_Witness ==
    /\ mmCall.pc = "threw"
    /\ Len(mmCall.attempts) = 2
    /\ mmCall.attempts[1].outcome = "failed"
    /\ mmCall.attempts[2].outcome = "failed"

\* C18: a call whose primary succeeded returns the primary's output, the
\* primary's name, options.modelId and usedFallback false; in every result
\* usedFallback is the boolean true when the content came from the fallback
\* and the boolean false otherwise.
C18_UsedFallbackIsBoolean ==
    mmCall.pc = "returned"
    => LET last == mmCall.attempts[Len(mmCall.attempts)]
       IN  /\ mmCall.response.content = Content(last.provider, last.text)
           /\ mmCall.response.provider = last.provider.name
           /\ mmCall.response.modelId = mmCall.options.modelId
           /\ mmCall.response.usedFallback = JBool(Len(mmCall.attempts) = 2)

\* C19: the dedup entry of a pull request changes only in a step in which a
\* task for it has its comment posted after the model produced the review;
\* a review whose model invocation failed leaves the dedup map as it was.
C19_DedupOnlyAfterSuccess ==
    [][\A k \in Keys :
          prReviewState'[k] # prReviewState[k]
          => \E t \in Slots :
                /\ tasks[t].pc = "comment"
                /\ tasks[t].key = k
                /\ tasks'[t].result.processed = JBool(TRUE)
                /\ tasks[t].call.pc = "returned"
                /\ tasks[t].review.kind = "review"]_vars

\* C20: the dedup check and the dedup write are not one atomic step.  The
\* step that receives a pull_request webhook and checks the map records
\* nothing, and the entry is written in the later step in which createComment
\* has returned, by a task that passed its check earlier; so two deliveries
\* for one pull request can both pass the check before either writes, and
\* both post a comment inside one cool-down window.
C20_CheckThenWrite ==
    [][/\ \A t \in Slots :
             Received(t) => prReviewState' = prReviewState
       /\ \A k \in Keys :
             prReviewState'[k] # prReviewState[k]
             => \E t \in Slots :
                   /\ tasks[t].pc = "comment"
                   /\ tasks[t].key = k
                   /\ tasks'[t].pc = "done"
                   /\ prReviewState'[k].timestamp = now
                   /\ Len(comments') = Len(comments) + 1]_vars

\* Two deliveries for one pull request have both been answered with a posted
\* review, the two comments are on the pull request, and the clock is still
\* inside the cool-down window of the first.
C20_Witness ==
    /\ now < Cooldown
    /\ Len(comments) = 2
    /\ \A i \in 1..2 : comments[i].key = SamePullRequest
    /\ \A t \in Slots :
          /\ tasks[t].pc = "done"
          /\ tasks[t].eventType = "pull_request"
          /\ tasks[t].key = SamePullRequest
          /\ tasks[t].result.processed = JBool(TRUE)
    /\ tasks[1].result.commentId # tasks[2].result.commentId
    /\ prReviewState[SamePullRequest] # NoEntry

\* The value the precedence rule gives a parameter: the per-call option when
\* one is given, otherwise the configured default, otherwise the constant.
Precedence(backend, config, options, p) ==
    IF options[p] # JUndef THEN options[p]
    ELSE IF config[p] # JUndef THEN config[p]
    ELSE ParameterConstants(backend)[p]

\* C21: every backend sends, for each of modelId, maxTokens and temperature,
\* the per-call option when one is given (0 included), otherwise the
\* configured default, otherwise the constant.
C21_ParameterPrecedence ==
    probe.op = "invoke"
    => \A p \in ParameterNames :
          probe.request[p] =
             Precedence(probe.backend, probe.config, probe.options, p)

\* The response has a first block that carries a text.
HasFirstText(response) ==
    /\ response.t = "arr"
    /\ Len(response.v) > 0
    /\ Prop(response.v[1], "text").t = "str"

\* C22: when the backend's response has no first textual content block,
\* invokeModel returns the empty string and does not throw.
C22_NoTextIsEmptyString ==
    (probe.op = "invoke" /\ ~HasFirstText(probe.response))
    => probe.result = Returned(JStr(""))

\* C23: for every policy document that parses, whatever it sets a section
\* to, the resolved policy has each section with a value of the default's
\* shape, the prompt is rendered and the review goes to the model: the
\* policy does not turn it into a failure comment.
C23_PolicyNeverAborts ==
    probe.op = "review"
    => /\ \A s \in PolicySections :
             Prop(probe.config, s).t = Prop(defaultConfig, s).t
       /\ probe.task.review.kind # "failure"
       /\ probe.task.pc = "primary"

\* C24: in one invokeModel call the primary is invoked exactly once, the
\* fallback at most once and only after the primary has failed, no provider
\* is invoked twice and none is invoked after a success.
C24_SingleFallbackAttempt ==
    LET a == mmCall.attempts
        n == Len(a)
    IN  /\ n <= 2
        /\ (mmCall.pc # "idle" /\ mmCall.primary # NoProvider)
           => (n >= 1 /\ a[1].provider = mmCall.primary)
        /\ n = 2
           => /\ a[1].outcome = "failed"
              /\ a[2].provider = mmCall.fallback
              /\ a[2].provider # a[1].provider
        /\ \A i \in 1..n :
              /\ i < n => a[i].outcome = "failed"
              /\ a[i].outcome = "pending"
                 => (i = n /\ mmCall.pc \in {"primary", "fallback"})
        /\ mmCall.pc = "returned" => a[n].outcome = "ok"

C24_Witness ==
    /\ mmCall.pc = "returned"
    /\ Len(mmCall.attempts) = 2
    /\ mmCall.attempts[1].outcome = "failed"
    /\ mmCall.attempts[2].outcome = "ok"
    /\ mmCall.attempts[1].provider.name # mmCall.attempts[2].provider.name
    /\ mmCall.options.provider = None

\* The place of an external call in the order of a task.
Rank(name) ==
    CASE name = "getPullRequestDetails" -> 0
      [] name = "getPullRequestFiles" -> 1
      [] name = "getFileContent" -> 2
      [] name = "invokeModel" -> 3
      [] OTHER -> 4

Called(task, name) == \E i \in 1..Len(task.calls) : task.calls[i] = name

\* C25: within one task the external steps happen in the order fetch changed
\* files, resolve policy, invoke model, post comment; a step starts only when
\* the one before it is complete, the comment is posted only when the model
\* invocation or its failure handling has finished, and no step is repeated
\* (the one fallback attempt is part of the model invocation).
C25_StepsInOrder ==
    \A t \in Slots :
       LET task == tasks[t]
           calls == task.calls
       IN  /\ \A i \in 1..Len(calls), j \in 1..Len(calls) :
                 i < j
                 => \/ Rank(calls[i]) < Rank(calls[j])
                    \/ /\ calls[i] = "invokeModel" /\ calls[j] = "invokeModel"
                       /\ j = i + 1
                       /\ Len(task.call.attempts) = 2
                       /\ task.call.attempts[1].outcome = "failed"
           /\ (\E i \in 1..Len(calls) : Rank(calls[i]) >= 2)
              => (Called(task, "getPullRequestFiles") /\ task.files.t = "arr")
           /\ (\E i \in 1..Len(calls) : Rank(calls[i]) >= 3)
              => task.repoConfig.t = "obj"
           /\ Called(task, "createComment")
              => /\ task.repoConfig.t = "obj"
                 /\ task.call.pc \in {"returned", "threw"}
                    \/ task.review.error = TypeErrorConfig
                 /\ task.review.kind \in {"review", "failure"}
                 /\ task.review.kind = "review" <=> task.call.pc = "returned"
           /\ InFlight(t) => Rank(calls[Len(calls)]) =
                                Rank(CASE task.pc = "details" -> "getPullRequestDetails"
                                       [] task.pc = "files" -> "getPullRequestFiles"
                                       [] task.pc = "policy" -> "getFileContent"
                                       [] task.pc \in {"primary", "fallback"} -> "invokeModel"
                                       [] OTHER -> "createComment")

C25_Witness ==
    \E t \in Slots :
       /\ tasks[t].calls = <<"getPullRequestFiles", "getFileContent",
                             "invokeModel", "invokeModel", "createComment">>
       /\ tasks[t].result.processed = JBool(TRUE)

\* C26: every review that completes, whether a pull_request event or a
\* manual issue_comment trigger started it, records in the step that
\* produces the {processed: true, commentId} response a dedup entry for the
\* pull request with the current time and the id of the comment posted.
C26_CompletedIsRecorded ==
    [][\A t \in Slots :
          (tasks[t].pc = "comment" /\ tasks'[t].pc = "done"
           /\ tasks'[t].result.processed = JBool(TRUE))
          => prReviewState'[tasks[t].key] =
                [timestamp |-> now,
                 commentId |-> tasks'[t].result.commentId]]_vars

\* The file is binary or its patch is longer than the limit.
BinaryOrTooLarge(file) ==
    \/ file.isBinary = JBool(TRUE)
    \/ (file.patch.t = "str" /\ file.patch.n > PatchLimit)

\* C27: the prompt has, in file order, one part for each file the path
\* filter accepts and none for a file it rejects; the part is the one-line
\* placeholder when the file is binary or its patch is longer than 10000
\* characters, and otherwise the file's diff in a code block, a patch of
\* exactly 10000 characters included.
C27_FileParts ==
    probe.op = "prompt"
    => LET IsFilePart(part) == part.kind \in {"placeholder", "fenced"}
           Included(file) == shouldIncludeFile(Chars(file.filename),
                                               probe.config)
           parts == SelectSeq(probe.prompt, IsFilePart)
           included == SelectSeq(probe.files, Included)
       IN  /\ Len(parts) = Len(included)
           /\ \A i \in 1..Len(parts) :
                 /\ parts[i].file = included[i].filename
                 /\ IF BinaryOrTooLarge(included[i])
                    THEN /\ parts[i].kind = "placeholder"
                         /\ parts[i].body # included[i].patch
                    ELSE /\ parts[i].kind = "fenced"
                         /\ included[i].patch.t = "str"
                            => parts[i].body = included[i].patch

C27_Witness ==
    /\ probe.op = "prompt"
    /\ Len(probe.files) = 2
    /\ ~shouldIncludeFile(Chars(probe.files[1].filename), probe.config)
    /\ probe.files[2].patch = JText("diff", PatchLimit)
    /\ \E i \in 1..Len(probe.prompt) :
          /\ probe.prompt[i].kind = "fenced"
          /\ probe.prompt[i].file = probe.files[2].filename
          /\ probe.prompt[i].body = probe.files[2].patch
    /\ ~\E i \in 1..Len(probe.prompt) :
           probe.prompt[i].file = probe.files[1].filename

\* The matches of a pattern in a content from index from on, left to right
\* and not overlapping, an empty match followed by the search one character
\* further.
RECURSIVE Matches(_, _, _)
Matches(pattern, content, from) ==
    LET starts == {i \in from..Len(content) :
                      MatchLen(pattern, content, i) >= 0}
    IN  IF starts = {} THEN <<>>
        ELSE LET index == CHOOSE i \in starts : \A j \in starts : i <= j
                 length == MatchLen(pattern, content, index)
             IN  <<[index |-> index, length |-> length]>>
                 \o Matches(pattern, content,
                            IF length = 0 THEN index + 1 ELSE index + length)

\* The violations the rules call for: none for a rule with an invalid
\* pattern, one per match for the others, the line being one more than the
\* number of newlines before the match.
RECURSIVE ExpectedViolations(_, _)
ExpectedViolations(content, rules) ==
    IF rules = <<>> THEN <<>>
    ELSE LET rule == Head(rules)
             ms == IF rule.pattern.kind = "invalid" THEN <<>>
                   ELSE Matches(rule.pattern, content, 0)
         IN  [i \in 1..Len(ms) |->
                 [rule |-> rule.name,
                  line |-> 1 + Cardinality({j \in 1..ms[i].index :
                                               content[j] = "\n"}),
                  match |-> SubSeq(content, ms[i].index + 1,
                                   ms[i].index + ms[i].length)]]
             \o ExpectedViolations(content, Tail(rules))

\* C28: applyCustomRules returns one violation per match of every rule with
\* a valid pattern, with line = 1 + the number of newlines before the match,
\* and none for a rule whose pattern is invalid, whatever the other rules.
C28_ViolationPerMatch ==
    probe.op = "rules"
    => /\ probe.result.kind = "returned"
       /\ probe.result.violations =
             ExpectedViolations(probe.content, probe.rules)

C30_InsertIfAbsent ==
    \A t1 \in Slots, t2 \in Slots :
       (t1 # t2 /\ tasks[t1].key # None /\ tasks[t1].key = tasks[t2].key)
       => /\ ~(Called(tasks[t1], "getFileContent")
               /\ Called(tasks[t2], "getFileContent"))
          /\ (tasks[t1].repoConfig.t = "obj" /\ tasks[t2].repoConfig.t = "obj")
             => tasks[t1].repoConfig = tasks[t2].repoConfig

\* C31: the dedup map only grows.  Under any interleaving of webhook tasks a
\* key that has an entry keeps one, and the timestamp of its entry never
\* decreases.
C31_DedupOnlyGrows ==
    [][\A k \in Keys :
          prReviewState[k] # NoEntry
          => /\ prReviewState'[k] # NoEntry
             /\ prReviewState'[k].timestamp >= prReviewState[k].timestamp]_vars

\* The entry of the pull request has been written a second time, at a later
\* instant than the start.
C31_Witness ==
    /\ Len(comments) = 2
    /\ prReviewState[SamePullRequest].commentId = 2
    /\ prReviewState[SamePullRequest].timestamp > 0

\* The provider.invokeModel calls that a step of slot t starts.
AttemptsBegun(t) ==
    LET before == Len(tasks[t].call.attempts)
        after == Len(tasks'[t].call.attempts)
    IN  IF after > before THEN after - before ELSE 0

\* C32: every provider invocation attempt, primary and fallback alike, is
\* counted: aiCallsMade grows by exactly the number of provider attempts a
\* step starts.
C32_EveryAttemptCounted ==
    [][\A t \in Slots :
          tasks'[t] # tasks[t]
          => metrics'.aiCallsMade - metrics.aiCallsMade = AttemptsBegun(t)]_vars

\* Slot t sends its response in this step.
Responds(t) == tasks'[t] # tasks[t] /\ tasks'[t].pc = "done"

\* C33: a task posts at most one comment, and only in the step that sends its
\* response; the response has processed = true exactly when the task posted a
\* comment, its commentId is then the id of that comment, and
\* webhooksProcessed is incremented exactly for those responses.
C33_ProcessedIffPosted ==
    [][\A t \in Slots :
          tasks'[t] # tasks[t]
          => LET posted == comments' # comments
                 result == tasks'[t].result
                 processed == Responds(t) /\ result.processed = JBool(TRUE)
             IN  /\ posted => /\ Responds(t)
                              /\ Len(comments') = Len(comments) + 1
                              /\ SubSeq(comments', 1, Len(comments)) = comments
                              /\ comments'[Len(comments')].key = tasks[t].key
                              /\ result.commentId
                                    = comments'[Len(comments')].id
                 /\ processed <=> posted
                 /\ metrics'.webhooksProcessed
                       = metrics.webhooksProcessed
                            + (IF processed THEN 1 ELSE 0)]_vars

\* One delivery was answered processed with the id of its comment, another
\* was answered without a comment.
C33_Witness ==
    /\ Done(1)
    /\ tasks[1].result.processed = JBool(FALSE)
    /\ Len(comments) = 1
    /\ metrics.webhooksReceived = 2
    /\ metrics.webhooksProcessed = 1
    /\ metrics.commentsPosted = 1

\* createComment threw in the task of slot t.
CommentFailed(task) ==
    /\ task.pc = "done"
    /\ Len(task.calls) > 0
    /\ task.calls[Len(task.calls)] = "createComment"
    /\ task.result.processed = JBool(FALSE)

\* C34: when createComment throws after the review text was produced, no
\* dedup entry is written, the response is 200 {processed: false, error}, and
\* the next delivery for the same pull request inside the cool-down window is
\* reviewed again, not skipped.
C34_FailedPostIsRetried ==
    [][\A t \in Slots :
          /\ (tasks[t].pc = "comment" /\ CommentFailed(tasks'[t]))
             => /\ prReviewState' = prReviewState
                /\ comments' = comments
                /\ tasks'[t].status = 200
                /\ tasks'[t].result
                      = [NoResult EXCEPT
                            !.processed = JBool(FALSE),
                            !.error = GithubError("createComment").message]
          /\ ( /\ Received(t)
               /\ CommentFailed(tasks[t])
               /\ tasks[t].eventType = "pull_request"
               /\ prReviewState[tasks[t].key] = NoEntry
               /\ IsVerified(tasks'[t])
               /\ tasks'[t].eventType = "pull_request"
               /\ tasks'[t].action \in {"opened", "synchronize", "reopened"}
               /\ tasks'[t].key = tasks[t].key
               /\ now < Cooldown )
             => /\ tasks'[t].pc = "files"
                /\ tasks'[t].calls = <<"getPullRequestFiles">>]_vars

\* The post of a pull request's review has failed inside the cool-down
\* window and the pull request has no dedup entry.
C34_Witness ==
    /\ CommentFailed(tasks[1])
    /\ tasks[1].eventType = "pull_request"
    /\ tasks[1].review # NoReview
    /\ prReviewState[tasks[1].key] = NoEntry
    /\ metrics.aiCallsSucceeded = 1
    /\ now < Cooldown

\* The response {processed: false, reason} of a skipped task, whatever the
\* reason.
SkippedEnd(task) ==
    /\ task.pc = "done"
    /\ task.status = 200
    /\ task.result.processed = JBool(FALSE)
    /\ task.result.reason # None

\* C36: a task that ends in Skipped leaves the dedup map and the policy cache
\* unchanged, invokes no model and posts no comment, and changes no counter
\* but webhooksReceived.  The steps such a task can take are its receipt, the
\* return of the pull request's details and the step that skips; each of them
\* is held to this.
C36_SkippedChangesNothing ==
    [][\A t \in Slots :
          ( /\ tasks'[t] # tasks[t]
            /\ \/ SkippedEnd(tasks'[t])
               \/ tasks'[t].pc \in {"details", "files"} )
          => /\ prReviewState' = prReviewState
             /\ configCache' = configCache
             /\ comments' = comments
             /\ metrics' = IF Received(t)
                           THEN Count(metrics, "webhooksReceived")
                           ELSE metrics
             /\ tasks'[t].call = NoCall
             /\ tasks'[t].review = NoReview
             /\ \A i \in 1..Len(tasks'[t].calls) :
                   tasks'[t].calls[i]
                      \in {"getPullRequestDetails", "getPullRequestFiles"}]_vars

\* A pull_request delivery was skipped for having no changed files after an
\* earlier delivery was reviewed: the map, the cache and the counters of the
\* earlier review are as the review left them.
C36_Witness ==
    /\ IsSkipped(tasks[1], "No files changed")
    /\ metrics.webhooksReceived = 2
    /\ metrics.webhooksProcessed = 1
    /\ metrics.aiCallsMade = 1
    /\ Len(comments) = 1
    /\ \E k \in Keys : prReviewState[k] # NoEntry /\ k # tasks[1].key

\* C35: whenever a provider is registered, the default provider is the
\* instance the registry holds under the default's own name, so a call by
\* that name and a call by default reach the same instance.
C35_DefaultIsRegistered ==
    ~NoneRegistered
    => /\ defaultProvider # NoProvider
       /\ providers[defaultProvider.name] = defaultProvider
       /\ getProvider(defaultProvider.name) = defaultProvider

\* C38: applyCustomRules terminates for every content and every rule
\* pattern, patterns that match the empty string included: the scan advances
\* past each match, so it returns, with at most one violation per position of
\* the content and rule.
C38_ScanTerminates ==
    probe.op = "rules"
    => /\ probe.result.kind # "hangs"
       /\ Len(probe.result.violations)
             <= Len(probe.rules) * (Len(probe.content) + 1)

\* The fields a reader of a policy asks for.
PolicyFields ==
    UNION {DOMAIN defaultConfig.v[section].v :
              section \in {"general", "focus", "severity", "files", "ai"}}
    \cup {"provider", "model_id", "enable_fallback", "fallback_provider"}

\* C39: no getRepositoryConfig, validateAndMergeConfig or clearCache changes
\* the default policy: every field of it reads as it did at the start, and a
\* triple that resolves to the defaults gets a policy that reads so too,
\* whatever documents were merged for other triples.
C39_DefaultsNeverChange ==
    probe.op = "resolve"
    => \A section \in DOMAIN defaultConfig.v, key \in PolicyFields :
          /\ Lookup(probe.prototype, defaultConfig.v[section], key)
                = Prop(defaultConfig.v[section], key)
          /\ ( /\ probe.pc = "returned"
               /\ probe.outcome \in {"notfound", "error", "unparsable"} )
             => Lookup(probe.prototype, probe.result.v[section], key)
                   = Prop(defaultConfig.v[section], key)

\* C37: provided every call to the source-control client and to a provider
\* settles, every received webhook is eventually answered, whatever the other
\* slot does meanwhile, and it is answered once: the record of an answered
\* request changes only when the slot takes the next request.
C37_EveryWebhookAnswered ==
    /\ \A t \in Slots : (tasks[t].pc # "idle") ~> Done(t)
    /\ [][\A t \in Slots :
             (Done(t) /\ tasks'[t] # tasks[t])
             => metrics'.webhooksReceived = metrics.webhooksReceived + 1]_vars

\* Both slots are suspended at an await, one at the model and one at the
\* changed files.
C37_Witness ==
    /\ tasks[1].pc \in {"primary", "fallback"}
    /\ tasks[2].pc = "files"
    /\ tasks[1].eventType = "issue_comment"

====
